---- MODULE Spec2Model ----
(***************************************************************************)
(* pdf_lib: content-addressed ingestion (scanner.py, util.py, library.py), *)
(* the Manifest (db.py) and the categorization engine (catalog.py,         *)
(* categorizer.py, llm.py), as a state machine.                            *)
(*                                                                         *)
(* Nullable columns hold <<>> for NULL and <<v>> for a value v.            *)
(* Timestamps are a logical clock read once per pass (now_ts()).           *)
(***************************************************************************)
EXTENDS Integers, Sequences, FiniteSets, TLC

VARIABLES
    fs,          \* the file tree: path -> [kind, content, mtime]
    vault,       \* the store: canonical vault path -> content of the blob there
    tmp,         \* the scratch area: scratch file name -> content written so far
    disk,        \* the committed Manifest: [documents, source_files]
    conn,        \* the Manifest as the open connection sees it (uncommitted)
    pc,          \* "idle", "scan", "cat", or "scan_raised" / "cat_raised" once an
                 \* error has propagated out of a pass
    clock,       \* logical time; now_ts() of the latest pass
    candidates,  \* the paths the finder yields in this pass, in order
    idx,         \* position of the pass in its list (candidates / docs_to_cat)
    stats,       \* the counters of the running scan pass
    outcome,     \* what the running scan pass did with each path
    returned,    \* the calls of scan_and_copy that returned since the tree last changed:
                 \* whether a dry run, and the stats returned
    wpc,         \* concurrent ingest: worker -> "off", "copy", "check", "rename", "done", "failed"
    wsrc,        \* concurrent ingest: worker -> content of its source file
    wres,        \* concurrent ingest: worker -> what its copy and its call returned
    opts,        \* the options of the running categorization pass
    cstats,      \* the counters of the running categorization pass
    loc,         \* categorize_library's locals at the end of its latest iteration
    answers,     \* what the provider answered for each document of the running
                 \* categorization pass, in the order of the pass
    view,        \* the categorized view: the entries under the view root
    initialized, \* whether ensure_initialized has run on the library: its directories,
                 \* categories.json and the manifest file exist
    call,        \* a function called on its own: [fn, ...arguments]
    ret          \* what that call returned or raised (<<>> before it ends)

scanVars == <<fs, vault, tmp, disk, conn, pc, clock, candidates, idx, stats, outcome,
              returned>>
raceVars == <<wpc, wsrc, wres>>
catVars == <<opts, cstats, loc, answers>>
fnVars == <<call, ret>>

-----------------------------------------------------------------------------
(* Bounds *)

MaxPasses == 3     \* passes started in one behaviour
MaxMtime == 1      \* modification times a file goes through
MaxTmp == 2        \* scratch file names in use at once
MaxDryRuns == 1    \* dry runs over a tree, before the passes over it
LastChange == 2    \* the tree changes before this many passes have started
NWorkers == 2      \* workers ingesting concurrently

Workers == 1..NWorkers

InvPdf == "/home/u/Invoices/inv.pdf"
CopyPdf == "/home/u/Invoices/copy.pdf"
Paths == {InvPdf, CopyPdf}
Contents == {<<1, 2>>, <<2>>}

None == <<>>
Some(v) == <<v>>

-----------------------------------------------------------------------------
(* util.py, library.py: hashing and the store layout *)

HashBase == 3

\* h.update(chunk), from the state sha256() starts in
sha256_init == 1
sha256_update(h, chunk) == h * HashBase + chunk

RECURSIVE sha256_of(_)
sha256_of(chunks) ==
    IF chunks = <<>> THEN sha256_init
    ELSE sha256_update(sha256_of(SubSeq(chunks, 1, Len(chunks) - 1)), chunks[Len(chunks)])

\* h.hexdigest(): the final mixing spreads the state over all the digits (two
\* contents of this model differ in their first digit already, as two sha256
\* digests do in their first eight), then the hex digits, most significant
\* first
hexdigest(h) ==
    LET d == (h * (4096 + 256 + 16 + 1)) % 65536
    IN <<(d \div 4096) % 16, (d \div 256) % 16, (d \div 16) % 16, d % 16>>

\* Library.vault_path_for_hash: vault/<hex[:2]>/<hex[2:4]>/<hex>.pdf
vault_path_for_hash(hex) == <<"vault", SubSeq(hex, 1, 2), SubSeq(hex, 3, 4), hex>>

\* uuid4 names a scratch file no other scratch file has
uuid4(tmpfiles) == CHOOSE n \in 1..(MaxTmp + 1) :
                      /\ n \notin DOMAIN tmpfiles
                      /\ \A m \in 1..(n - 1) : m \in DOMAIN tmpfiles

\* The ways one ingest can go: no fault, the source or the scratch file cannot
\* be opened, an I/O error after k chunks were written (k = Len(content): the
\* last read, the flush or the fsync fails), or the rename fails.
Faults(content) ==
    {<<"none">>, <<"open">>, <<"rename">>} \cup {<<"io", k>> : k \in 0..Len(content)}

Leaks(fault) == fault[1] \in {"io", "rename"}

Remove(f, k) == [x \in DOMAIN f \ {k} |-> f[x]]

\* copy_to_temp_and_hash: stream src into a scratch file, hashing what is written.
\* Result: [raised, sha256_hex, bytes_written, tmp_path, tmp]
copy_to_temp_and_hash_short(content, tmpfiles, fault) ==
    LET name == uuid4(tmpfiles)
        n == Len(content)
    IN [raised |-> FALSE,
        sha256_hex |-> hexdigest(sha256_of(content)),
        bytes_written |-> n,
        tmp_path |-> name,
        tmp |-> (name :> SubSeq(content, 1, n - 1)) @@ tmpfiles]

copy_to_temp_and_hash(content, tmpfiles, fault) ==
    LET name == uuid4(tmpfiles)
        n == IF fault[1] = "io" THEN fault[2] ELSE Len(content)
        written == SubSeq(content, 1, n)
    IN IF fault[1] = "open"
       THEN [raised |-> TRUE, sha256_hex |-> None, bytes_written |-> 0,
             tmp_path |-> name, tmp |-> tmpfiles]
       ELSE [raised |-> fault[1] = "io",
             sha256_hex |-> hexdigest(sha256_of(written)),
             bytes_written |-> n,
             tmp_path |-> name,
             tmp |-> (name :> written) @@ tmpfiles]

\* vault_path.exists()
exists(store, vault_path) == vault_path \in DOMAIN store

\* result.tmp_path.unlink(missing_ok=True)
unlink(tmpfiles, name) == Remove(tmpfiles, name)

\* The scratch file goes away and nothing arrives at vault_path
replace_dropped(store, tmpfiles, name, vault_path) ==
    [vault |-> store, tmp |-> Remove(tmpfiles, name)]

\* result.tmp_path.replace(vault_path): an atomic rename, which puts the scratch
\* file at vault_path whether or not a file is there already
replace(store, tmpfiles, name, vault_path) ==
    [vault |-> (vault_path :> tmpfiles[name]) @@ store, tmp |-> Remove(tmpfiles, name)]

\* _copy_into_vault: [raised, hash_hex, vault_path, bytes_written, was_copied, vault, tmp]
copy_into_vault(content, store, tmpfiles, fault) ==
    LET result == copy_to_temp_and_hash(content, tmpfiles, fault)
        vault_path == vault_path_for_hash(result.sha256_hex)
        failed == [raised |-> TRUE, hash_hex |-> None, vault_path |-> None,
                   bytes_written |-> 0, was_copied |-> FALSE,
                   vault |-> store, tmp |-> result.tmp]
    IN IF result.raised THEN failed
       ELSE IF exists(store, vault_path)
       THEN [raised |-> FALSE, hash_hex |-> result.sha256_hex, vault_path |-> vault_path,
             bytes_written |-> result.bytes_written, was_copied |-> FALSE,
             vault |-> store, tmp |-> unlink(result.tmp, result.tmp_path)]
       ELSE IF fault[1] = "rename" THEN failed
       ELSE [raised |-> FALSE, hash_hex |-> result.sha256_hex, vault_path |-> vault_path,
             bytes_written |-> result.bytes_written, was_copied |-> TRUE,
             vault |-> replace(store, result.tmp, result.tmp_path, vault_path).vault,
             tmp |-> replace(store, result.tmp, result.tmp_path, vault_path).tmp]

-----------------------------------------------------------------------------
(* db.py: the Manifest *)

EmptyDb == [documents |-> {}, source_files |-> {}]

executed_autocommit(committed, working) == working

\* connect(): sqlite3.connect with its default isolation level, so a statement
\* runs inside the connection's open transaction; the committed database is
\* what it was until conn.commit()
executed(committed, working) == committed

HasSource(db, source_path) == \E r \in db.source_files : r.source_path = source_path

\* get_source: the row of the path (call only when HasSource)
get_source(db, source_path) == CHOOSE r \in db.source_files : r.source_path = source_path

touch_source_seen_all(db, source_path, seen_at) ==
    [db EXCEPT !.source_files = {[r EXCEPT !.last_seen_at = seen_at] : r \in @}]

\* UPDATE source_files SET last_seen_at = ? WHERE source_path = ?
touch_source_seen(db, source_path, seen_at) ==
    [db EXCEPT !.source_files =
        {IF r.source_path = source_path THEN [r EXCEPT !.last_seen_at = seen_at] ELSE r
           : r \in @}]

upsert_source_keep_status(db, row) ==
    IF HasSource(db, row.source_path)
    THEN [db EXCEPT !.source_files =
            {IF r.source_path = row.source_path
             THEN [r EXCEPT !.source_basename = row.source_basename,
                            !.source_size = row.source_size,
                            !.source_mtime = row.source_mtime,
                            !.hash = row.hash,
                            !.last_seen_at = row.last_seen_at,
                            !.error = row.error]
             ELSE r : r \in @}]
    ELSE [db EXCEPT !.source_files = @ \cup {row}]

\* INSERT INTO source_files ... ON CONFLICT(source_path) DO UPDATE SET all but
\* source_path and first_seen_at
upsert_source(db, row) ==
    IF HasSource(db, row.source_path)
    THEN [db EXCEPT !.source_files =
            {IF r.source_path = row.source_path
             THEN [r EXCEPT !.source_basename = row.source_basename,
                            !.source_size = row.source_size,
                            !.source_mtime = row.source_mtime,
                            !.hash = row.hash,
                            !.last_seen_at = row.last_seen_at,
                            !.status = row.status,
                            !.error = row.error]
             ELSE r : r \in @}]
    ELSE [db EXCEPT !.source_files = @ \cup {row}]

\* A new documents row: the columns the INSERT does not name are NULL
NewDocument(hash_hex, vault_relpath, file_size, first_seen_at, last_seen_at) ==
    [hash |-> hash_hex, vault_relpath |-> vault_relpath, file_size |-> file_size,
     first_seen_at |-> first_seen_at, last_seen_at |-> last_seen_at,
     title |-> None, category |-> None, category_score |-> None,
     category_reason |-> None, categorized_at |-> None]

upsert_document_seen_insert(db, hash_hex, vault_relpath, file_size, first_seen_at, last_seen_at) ==
    [db EXCEPT !.documents =
        @ \cup {NewDocument(hash_hex, vault_relpath, file_size, first_seen_at, last_seen_at)}]

\* No documents row is written
upsert_document_seen_skipped(db, hash_hex, vault_relpath, file_size, first_seen_at, last_seen_at) ==
    db

\* INSERT OR REPLACE INTO documents: the row of the hash is deleted and a new
\* one inserted
upsert_document_seen_replace(db, hash_hex, vault_relpath, file_size, first_seen_at, last_seen_at) ==
    [db EXCEPT !.documents =
        {d \in @ : d.hash # hash_hex}
        \cup {NewDocument(hash_hex, vault_relpath, file_size, first_seen_at, last_seen_at)}]

\* INSERT INTO documents ... ON CONFLICT(hash) DO UPDATE SET vault_relpath,
\* file_size, last_seen_at
upsert_document_seen(db, hash_hex, vault_relpath, file_size, first_seen_at, last_seen_at) ==
    IF \E d \in db.documents : d.hash = hash_hex
    THEN [db EXCEPT !.documents =
            {IF d.hash = hash_hex
             THEN [d EXCEPT !.vault_relpath = vault_relpath,
                            !.file_size = file_size,
                            !.last_seen_at = last_seen_at]
             ELSE d : d \in @}]
    ELSE [db EXCEPT !.documents =
            @ \cup {NewDocument(hash_hex, vault_relpath, file_size, first_seen_at, last_seen_at)}]

-----------------------------------------------------------------------------
(* The file tree *)

Basename(path) == IF path = "/home/u/Misc/scan.pdf" THEN "scan.pdf" ELSE
                  IF path = "/home/u/Invoices/inv.pdf" THEN "inv.pdf" ELSE "copy.pdf"

NoOpts == [llm_provider |-> "off", llm_mode |-> "fallback", recategorize_all |-> FALSE]
ZeroCat == [docs_categorized |-> 0, llm_calls |-> 0, llm_used |-> 0, llm_failed |-> 0]
NoLoc == <<>>

\* src.stat(): st_size counts the chunks, st_mtime is the file's mtime
st_size(path) == Len(fs[path].content)
st_mtime(path) == fs[path].mtime

ZeroStats == [discovered |-> 0, skipped_unchanged |-> 0, copied_new |-> 0,
              deduped_existing |-> 0, errors |-> 0]

NoOutcome == [p \in Paths |-> "none"]

\* The two files of a tree whose files differ
Contents_of(path) == IF path = InvPdf THEN <<1, 2>> ELSE <<2>>

Init ==
    /\ fs = [p \in Paths |-> [kind |-> "file", content |-> <<1, 2>>, mtime |-> 0]]
    /\ vault = <<>>
    /\ tmp = <<>>
    /\ disk = EmptyDb
    /\ conn = EmptyDb
    /\ pc = "idle"
    /\ clock = 0
    /\ candidates = <<>>
    /\ idx = 0
    /\ stats = ZeroStats
    /\ outcome = NoOutcome
    /\ returned = <<>>
    /\ wpc = [w \in Workers |-> "off"]
    /\ wsrc = [w \in Workers |-> <<>>]
    /\ wres = [w \in Workers |-> <<>>]
    /\ opts = NoOpts
    /\ initialized = FALSE
    /\ cstats = ZeroCat
    /\ loc = NoLoc
    /\ answers = <<>>
    /\ view = {}
    /\ call = None
    /\ ret = None

\* The operator's files change between passes: a file is written (new content,
\* later mtime), or its permissions change so that is_file() and stat() fail
\* or work again.
EnvWrite(p, c) ==
    /\ pc \in {"idle", "scan_raised", "cat_raised"}
    /\ clock < LastChange
    /\ fs[p].mtime < MaxMtime
    /\ fs' = [fs EXCEPT ![p] = [kind |-> "file", content |-> c, mtime |-> fs[p].mtime + 1]]
    /\ returned' = <<>>
    /\ UNCHANGED <<vault, tmp, disk, conn, pc, clock, candidates, idx, stats, outcome>>
    /\ UNCHANGED <<raceVars, catVars, fnVars, view>>
    /\ UNCHANGED initialized

EnvChmod(p) ==
    /\ pc \in {"idle", "scan_raised", "cat_raised"}
    /\ clock < LastChange
    /\ fs' = [fs EXCEPT ![p].kind = IF @ = "file" THEN "nostat" ELSE "file"]
    /\ returned' = <<>>
    /\ UNCHANGED <<vault, tmp, disk, conn, pc, clock, candidates, idx, stats, outcome>>
    /\ UNCHANGED <<raceVars, catVars, fnVars, view>>
    /\ UNCHANGED initialized

\* During a pass the tree is left alone, but for the file the finder has just
\* yielded: between the finder's is_file() (line 137) and the loop's stat()
\* (line 225) its permissions may be taken away.
EnvRevoke ==
    /\ pc = "scan"
    /\ idx <= Len(candidates)
    /\ fs[candidates[idx]].kind = "file"
    /\ fs' = [fs EXCEPT ![candidates[idx]].kind = "nostat"]
    /\ returned' = <<>>
    /\ UNCHANGED <<vault, tmp, disk, conn, pc, clock, candidates, idx, stats, outcome>>
    /\ UNCHANGED <<raceVars, catVars, fnVars, view>>
    /\ UNCHANGED initialized

-----------------------------------------------------------------------------
(* scanner.py: scan_and_copy *)

Idle == pc \in {"idle", "scan_raised", "cat_raised"}

\* os.walk hands the file names of a directory over in the order of the file
\* system: any order of the paths
Listings ==
    {l \in [1..Cardinality(Paths) -> Paths] : \A i, j \in DOMAIN l : i # j => l[i] # l[j]}

\* limit of scan_and_copy: None, or a number of files
Limits == {None, Some(1)}

\* find_pdfs_walk (lines 103-143): the files of the listing for which is_file()
\* holds (a file that cannot be stat'ed is passed over), up to the limit; the
\* limit is tested after a file was yielded, so one file is yielded whatever
\* the limit
find_pdfs_walk(tree, listing, limit) ==
    LET files == SelectSeq(listing, LAMBDA p : tree[p].kind = "file")
        n == IF limit = None THEN Len(files) ELSE IF limit[1] < 1 THEN 1 ELSE limit[1]
    IN IF Len(files) > n THEN SubSeq(files, 1, n) ELSE files

\* lines 189-201: dry_run counts what the finder yields and returns; no
\* connection is opened and nothing is written
ScanDryRun(listing, limit) ==
    /\ Idle
    /\ Len(returned) < MaxDryRuns
    /\ returned' = Append(returned,
                          [dry_run |-> TRUE,
                           stats |-> [ZeroStats EXCEPT
                                        !.discovered = Len(find_pdfs_walk(fs, listing, limit))]])
    /\ UNCHANGED <<fs, vault, tmp, disk, conn, pc, clock, candidates, idx, stats, outcome>>
    /\ UNCHANGED <<raceVars, catVars, fnVars, view>>
    /\ UNCHANGED initialized

\* lines 205-217: open the connection, read the clock, zero the counters; the
\* finder will yield the files of the listing
ScanBegin(listing, limit) ==
    /\ Idle
    /\ clock < MaxPasses
    /\ pc' = "scan"
    /\ clock' = clock + 1
    /\ conn' = disk
    /\ candidates' = find_pdfs_walk(fs, listing, limit)
    /\ idx' = 1
    /\ stats' = ZeroStats
    /\ outcome' = NoOutcome
    /\ UNCHANGED <<fs, vault, tmp, disk, returned>>
    /\ UNCHANGED <<raceVars, catVars, fnVars, view>>
    /\ initialized' = TRUE

InLoop == pc = "scan" /\ idx <= Len(candidates)

\* The pass has left its loop and stands before conn.commit()
AtCommit == pc = "scan" /\ idx > Len(candidates)

SourceRow(src, size, mtime, hash_hex, status, error) ==
    [source_path |-> src, source_basename |-> Basename(src),
     source_size |-> size, source_mtime |-> mtime, hash |-> hash_hex,
     first_seen_at |-> clock, last_seen_at |-> clock,
     status |-> status, error |-> error]

Unchanged_swapped(src) ==
    /\ HasSource(conn, src)
    /\ LET rec == get_source(conn, src)
       IN /\ rec.status = "ok"
          /\ rec.source_size = Some(st_mtime(src))
          /\ rec.source_mtime = Some(st_size(src))

\* lines 243-244: an ok record whose size and mtime are the observed ones
Unchanged(src) ==
    /\ HasSource(conn, src)
    /\ LET rec == get_source(conn, src)
       IN /\ rec.status = "ok"
          /\ rec.source_size = Some(st_size(src))
          /\ rec.source_mtime = Some(st_mtime(src))

\* What stat() and the ingest raise: a denied permission is a PermissionError,
\* any other I/O failure an OSError
Raised(fault) == IF fault[1] \in {"open", "stat"} THEN "PermissionError" ELSE "OSError"

CaughtOnlyPermission(exc) == exc = "PermissionError"

\* lines 226, 256: except (OSError, PermissionError)
Caught(exc) == exc \in {"OSError", "PermissionError"}

\* An error no except clause catches leaves through the finally clause
\* (lines 302-303): the connection closes without a commit.
Propagate ==
    /\ conn' = disk
    /\ pc' = "scan_raised"
    /\ candidates' = <<>>
    /\ idx' = 0
    /\ stats' = ZeroStats
    /\ outcome' = NoOutcome

\* lines 224-240: stat() raises for a file the finder has yielded
ScanStatFail ==
    /\ InLoop
    /\ fs[candidates[idx]].kind = "nostat"
    /\ LET src == candidates[idx]
       IN IF Caught(Raised(<<"stat">>))
          THEN /\ conn' = upsert_source(conn, SourceRow(src, None, None, None, "unreadable",
                                                        Some("stat failed")))
               /\ stats' = [stats EXCEPT !.discovered = @ + 1, !.errors = @ + 1]
               /\ outcome' = [outcome EXCEPT ![src] = "unreadable"]
               /\ idx' = idx + 1
               /\ UNCHANGED <<pc, candidates>>
          ELSE Propagate
    /\ disk' = executed(disk, conn')
    /\ UNCHANGED <<fs, vault, tmp, clock, returned>>
    /\ UNCHANGED <<raceVars, catVars, fnVars, view>>
    /\ UNCHANGED initialized

\* lines 242-247: the recorded size and mtime are the observed ones
ScanSkip ==
    /\ InLoop
    /\ fs[candidates[idx]].kind = "file"
    /\ Unchanged(candidates[idx])
    /\ LET src == candidates[idx]
       IN /\ conn' = touch_source_seen(conn, src, clock)
          /\ stats' = [stats EXCEPT !.discovered = @ + 1, !.skipped_unchanged = @ + 1]
          /\ outcome' = [outcome EXCEPT ![src] = "skipped"]
    /\ idx' = idx + 1
    /\ disk' = executed(disk, conn')
    /\ UNCHANGED <<fs, vault, tmp, pc, clock, candidates, returned>>
    /\ UNCHANGED <<raceVars, catVars, fnVars, view>>
    /\ UNCHANGED initialized

\* lines 254-298: ingest the file, then record the document and the source
ScanIngest(fault) ==
    /\ InLoop
    /\ fs[candidates[idx]].kind = "file"
    /\ ~Unchanged(candidates[idx])
    /\ fault \in Faults(fs[candidates[idx]].content)
    /\ Leaks(fault) => Cardinality(DOMAIN tmp) + 1 < MaxTmp
    /\ LET src == candidates[idx]
           r == copy_into_vault(fs[src].content, vault, tmp, fault)
       IN /\ vault' = r.vault
          /\ tmp' = r.tmp
          /\ IF ~r.raised
             THEN /\ conn' = upsert_source(
                                upsert_document_seen(conn, r.hash_hex, r.vault_path,
                                                     r.bytes_written, clock, clock),
                                SourceRow(src, Some(st_size(src)), Some(st_mtime(src)),
                                          Some(r.hash_hex), "ok", None))
                  /\ stats' = [stats EXCEPT
                                 !.discovered = @ + 1,
                                 !.copied_new = IF r.was_copied THEN @ + 1 ELSE @,
                                 !.deduped_existing = IF r.was_copied THEN @ ELSE @ + 1]
                  /\ outcome' = [outcome EXCEPT
                                   ![src] = IF r.was_copied THEN "copied" ELSE "deduped"]
                  /\ idx' = idx + 1
                  /\ UNCHANGED <<pc, candidates>>
             ELSE IF Caught(Raised(fault))
             THEN /\ conn' = upsert_source(conn,
                                SourceRow(src, Some(st_size(src)), Some(st_mtime(src)),
                                          None, "error", Some("copy failed")))
                  /\ stats' = [stats EXCEPT !.discovered = @ + 1, !.errors = @ + 1]
                  /\ outcome' = [outcome EXCEPT ![src] = "error"]
                  /\ idx' = idx + 1
                  /\ UNCHANGED <<pc, candidates>>
             ELSE Propagate
    /\ disk' = executed(disk, conn')
    /\ UNCHANGED <<fs, clock, returned>>
    /\ UNCHANGED <<raceVars, catVars, fnVars, view>>
    /\ UNCHANGED initialized

\* lines 300-301: conn.commit(); return stats
ScanCommit ==
    /\ AtCommit
    /\ disk' = conn
    /\ returned' = Append(returned, [dry_run |-> FALSE, stats |-> stats])
    /\ pc' = "idle"
    /\ candidates' = <<>>
    /\ idx' = 0
    /\ stats' = ZeroStats
    /\ outcome' = NoOutcome
    /\ UNCHANGED <<fs, vault, tmp, conn, clock>>
    /\ UNCHANGED <<raceVars, catVars, fnVars, view>>
    /\ UNCHANGED initialized

\* The process is killed before conn.commit(), inside the loop or after it:
\* nothing of the pass is committed.
ScanCrash ==
    /\ pc = "scan"
    /\ conn' = disk
    /\ pc' = "idle"
    /\ candidates' = <<>>
    /\ idx' = 0
    /\ stats' = ZeroStats
    /\ outcome' = NoOutcome
    /\ UNCHANGED <<fs, vault, tmp, disk, clock, returned>>
    /\ UNCHANGED <<raceVars, catVars, fnVars, view>>
    /\ UNCHANGED initialized

\* lines 219-301: the loop over files that can be stat'ed, the commit, and
\* the kill
ScanSteps ==
    \/ ScanSkip
    \/ \E fault \in UNION {Faults(c) : c \in Contents} : ScanIngest(fault)
    \/ ScanCommit
    \/ ScanCrash

\* scan_and_copy, step by step
\* cli.py lines 20-28, library.py lines 39-57: the init command.
\* Library.ensure_initialized() makes the directories of the library, writes
\* categories.json when there is none and creates the tables of the manifest
\* (CREATE TABLE IF NOT EXISTS); it begins no pass and writes no row
CmdInit ==
    /\ Idle
    /\ initialized' = TRUE
    /\ UNCHANGED <<fs, vault, tmp, disk, conn, pc, clock, candidates, idx, stats, outcome,
                   returned>>
    /\ UNCHANGED <<raceVars, catVars, fnVars, view>>

ScanPass ==
    \/ \E listing \in Listings, limit \in Limits : ScanBegin(listing, limit)
    \/ \E listing \in Listings, limit \in Limits : ScanDryRun(listing, limit)
    \/ ScanStatFail
    \/ ScanSteps

NextScan ==
    \/ \E p \in Paths, c \in Contents : EnvWrite(p, c)
    \/ \E p \in Paths : EnvChmod(p)
    \/ EnvRevoke
    \/ CmdInit
    \/ ScanPass

-----------------------------------------------------------------------------
(* categorizer.py: the rule scorer.  Scores are counted in millionths, so    *)
(* that priority * 1e-6 is one unit per priority point.                      *)

Micro == 1000000
PathBase == 2 * Micro
FileBase == 2 * Micro
MetaBase == 3 * Micro
TextBase == 4 * Micro
Extra == Micro \div 4

\* cfg.get("default_category", "Unsorted"), float(cfg.get("min_score", 4))
DefaultCategory == "Unsorted"
MinScoreCfg == 4
min_score == MinScoreCfg * Micro

\* cfg["categories"]: the rule set of this library
Rules == <<
    [name |-> "Invoices", priority |-> 0, min_pages |-> None, max_pages |-> None,
     path_keywords_any |-> <<"invoices">>, filename_keywords_any |-> <<"inv">>,
     metadata_keywords_any |-> <<"invoice">>, text_keywords_any |-> <<>>],
    [name |-> "Receipts", priority |-> 5, min_pages |-> None, max_pages |-> None,
     path_keywords_any |-> <<"invoices">>, filename_keywords_any |-> <<>>,
     metadata_keywords_any |-> <<>>, text_keywords_any |-> <<>>] >>

\* The categories config of this library
Cfg == [default_category |-> DefaultCategory, min_score |-> min_score, categories |-> Rules]

\* What mdls reports as kMDItemTitle for a blob (NULL when it reports none)
Titles == {None, Some("Invoice 2025")}

\* str.lower() on the strings of this library
Lower(str) ==
    CASE str = "/home/u/Invoices/inv.pdf" -> "/home/u/invoices/inv.pdf"
      [] str = "/home/u/Invoices/copy.pdf" -> "/home/u/invoices/copy.pdf"
      [] str = "Invoice 2025" -> "invoice 2025"
      [] str = "/home/u/Misc/scan.pdf" -> "/home/u/misc/scan.pdf"
      [] str = "Total due" -> "total due"
      [] str = "JSON" -> "json"
      [] str = "Category" -> "category"
      [] str = "Confidence" -> "confidence"
      [] str = "Reason" -> "reason"
      [] OTHER -> str

\* kw in hs, for lower-case kw and hs: the keywords each haystack holds as a substring
Occurs(kw, hs) ==
    CASE hs = "/home/u/invoices/inv.pdf" -> kw \in {"invoices", "invoice", "inv"}
      [] hs = "/home/u/invoices/copy.pdf" -> kw \in {"invoices", "invoice", "inv"}
      [] hs = "inv.pdf" -> kw \in {"inv"}
      [] hs = "invoice 2025" -> kw \in {"invoice", "inv"}
      [] hs = "total due" -> kw \in {"total"}
      [] OTHER -> FALSE

\* _lower: (s or "").lower()
lower(s) == IF s = None THEN "" ELSE Lower(s[1])

\* _any_kw: the keywords that occur in the haystack, in list order
any_kw(haystack, keywords) ==
    SelectSeq(keywords, LAMBDA kw : Lower(kw) # "" /\ Occurs(Lower(kw), Lower(haystack)))

\* lines 65-86: one channel's contribution
Channel(hits, base) == IF hits = <<>> THEN 0 ELSE base + Extra * (Len(hits) - 1)

ChannelReason(hits, label) == IF hits = <<>> THEN <<>> ELSE <<<<label, hits[1]>>>>

\* lines 57-63: the rule is skipped when the page count is out of its bounds
PageSkipped(cat, page_count) ==
    /\ page_count # None
    /\ \/ cat.min_pages # None /\ page_count[1] < cat.min_pages[1]
       \/ cat.max_pages # None /\ page_count[1] > cat.max_pages[1]

\* lines 52-93: the loop over the rules, keeping the best so far
RECURSIVE BestRule(_, _, _, _, _, _, _)
BestRule(rules, best, path_l, base_l, meta_l, text_l, page_count) ==
    IF rules = <<>> THEN best
    ELSE LET cat == Head(rules)
             path_hits == any_kw(path_l, cat.path_keywords_any)
             file_hits == any_kw(base_l, cat.filename_keywords_any)
             meta_hits == any_kw(meta_l, cat.metadata_keywords_any)
             text_hits == any_kw(text_l, cat.text_keywords_any)
             score == Channel(path_hits, PathBase) + Channel(file_hits, FileBase)
                      + Channel(meta_hits, MetaBase) + Channel(text_hits, TextBase)
                      + cat.priority
             reasons == ChannelReason(path_hits, "path") \o ChannelReason(file_hits, "filename")
                        \o ChannelReason(meta_hits, "meta") \o ChannelReason(text_hits, "text")
             next == IF ~PageSkipped(cat, page_count) /\ score > best.score
                     THEN [category |-> cat.name, score |-> score,
                           reason |-> IF reasons = <<>> THEN <<"matched category">>
                                      ELSE reasons]
                     ELSE best
         IN BestRule(Tail(rules), next, path_l, base_l, meta_l, text_l, page_count)

categorize_unthresholded(cfg, source_path, source_basename, title, text_sample, page_count) ==
    BestRule(cfg.categories,
             [category |-> cfg.default_category, score |-> 0,
              reason |-> <<"no rules matched">>],
             lower(source_path), lower(source_basename), lower(title),
             lower(text_sample), page_count)

\* categorize (lines 30-97)
categorize(cfg, source_path, source_basename, title, text_sample, page_count) ==
    LET best == BestRule(cfg.categories,
                         [category |-> cfg.default_category, score |-> 0,
                          reason |-> <<"no rules matched">>],
                         lower(source_path), lower(source_basename), lower(title),
                         lower(text_sample), page_count)
    IN IF best.score < cfg.min_score
       THEN [category |-> cfg.default_category, score |-> best.score,
             reason |-> <<"below min_score; defaulted">>]
       ELSE best

-----------------------------------------------------------------------------
(* llm.py: llm_classify_category.  Confidences are counted in hundredths.    *)

\* A value of the provider's answer: absent or null is <<>>, a string s is
\* <<"str", s>>, a number n is <<"num", n>>
Str(s) == <<"str", s>>
Num(n) == <<"num", n>>
\* true and false are <<"bool", b>>; the digits of a number n, as a string,
\* are <<"numstr", n>>
Bool(b) == <<"bool", b>>
NumStr(n) == <<"numstr", n>>

\* How the POST ends: with a 2xx response whose body is JSON, or not
Transports == {"ok", "unreachable", "http_error", "connect_timeout", "read_timeout",
               "non_json"}

\* Where a JSON response carries its text: choices[0].message.content,
\* choices[0].text, output_text, in none of them, or the JSON is no object
Shapes == {"message", "text", "output_text", "other_keys", "not_object"}

(* The text of an answer is the sequence of its tokens, each of which stands  *)
(* for the characters it is written with:                                    *)
(*   <<"ws", "sp">> a space, <<"ws", "nl">> a line break                      *)
(*   <<"sym", c>>   c, one of { } : , = ' ; <<"sym", "fence">> the fence ```  *)
(*   <<"word", w>>  the letters w                                            *)
(*   <<"num", n>>   the decimal number n/100 (-0.5 for -50)                   *)
(*   <<"dq", s>>    s between double quotes, <<"sq", s>> between single ones  *)
(*   <<"sdq", s>>   s between typographic double quotes, <<"ssq", s>> single  *)
(* The strings between quotes hold no brace, no backslash and no key name    *)
(* followed by a colon, and no two strings stand side by side; the objects   *)
(* hold no object or list.                                                   *)

Sp == <<"ws", "sp">>
Nl == <<"ws", "nl">>
Sym(c) == <<"sym", c>>
Word(w) == <<"word", w>>
Fence == Sym("fence")

\* How a text is written: blank, a JSON object (bare, in a ``` fence, between
\* two sentences, with typographic quotes), a Python dict with single quotes
\* (bare, or after a word of prose inside a ``` fence: with nothing else, with
\* a brace in the prose before it, with a closing or an opening brace in the
\* prose after it, with the JSON word true or the Python word True as a
\* value), or key: "value" pairs without braces (keys in lower case and ":",
\* or capitalised and "=")
Forms == {"empty", "whitespace", "json", "fenced_json", "prose_json", "smart_json",
          "pydict", "fenced_pydict", "brace_before", "brace_after", "open_after",
          "json_words", "python_words", "plain", "plain_caps"}

\* The forms in which the only object is written with single quotes and is
\* surrounded by prose and code-fence markup
QuotedInFenceForms == {"fenced_pydict", "brace_before", "brace_after", "open_after",
                       "json_words", "python_words"}

\* s between single quotes: an apostrophe inside s ends the string early, and
\* the rest of s stands outside it
single_quoted(s) ==
    IF s = "Children's Books"
    THEN <<<<"sq", "Children">>, Word("s"), Sp, Word("Books"), Sym("'")>>
    ELSE <<<<"sq", s>>>>

\* A key or a string value in the quotes of a style
quoted(s, style) ==
    CASE style = "sq" -> single_quoted(s)
      [] style = "sdq" -> <<<<"sdq", s>>>>
      [] OTHER -> <<<<"dq", s>>>>

\* The name of a key as a bare word
KeyWord(key, style) ==
    IF style # "caps" THEN Word(key)
    ELSE CASE key = "category" -> Word("Category")
           [] key = "confidence" -> Word("Confidence")
           [] OTHER -> Word("Reason")

\* One key with its value; nothing for a field that is not written
member(key, value, style) ==
    IF value = None THEN <<>>
    ELSE (IF style \in {"bare", "caps"} THEN <<KeyWord(key, style)>> ELSE quoted(key, style))
         \o (IF style = "caps" THEN <<Sp, Sym("="), Sp>> ELSE <<Sym(":"), Sp>>)
         \o (IF value[1] = "str" THEN quoted(value[2], style) ELSE <<<<"num", value[2]>>>>)

joined(a, b) == IF a = <<>> THEN b ELSE IF b = <<>> THEN a ELSE a \o <<Sym(","), Sp>> \o b

\* The fields that are written, in the order category, confidence, reason
members(d, style) ==
    joined(joined(member("category", d.category, style),
                  member("confidence", d.confidence, style)),
           member("reason", d.reason, style))

braced(tokens) == <<Sym("{")>> \o tokens \o <<Sym("}")>>

\* The text written in form d.form with the fields of d
render(d) ==
    LET f == d.form
        dict == braced(members(d, "sq"))
        opened == <<Word("Sure!"), Sp, Fence, Word("json"), Nl>>
        closed == <<Nl, Fence>>
    IN CASE f = "empty" -> <<>>
         [] f = "whitespace" -> <<Sp, Nl>>
         [] f = "json" -> braced(members(d, "dq"))
         [] f = "fenced_json" -> <<Fence, Word("json"), Nl>> \o braced(members(d, "dq")) \o closed
         [] f = "prose_json" ->
               <<Word("Sure!"), Sp>> \o braced(members(d, "dq")) \o <<Sp, Word("Done.")>>
         [] f = "smart_json" -> braced(members(d, "sdq"))
         [] f = "pydict" -> dict
         [] f = "fenced_pydict" -> opened \o dict \o closed
         [] f = "brace_before" ->
               <<Word("Here"), Sp, Sym("{"), Word("as"), Sp, Word("asked"), Sym("}"), Sp,
                 Fence, Word("json"), Nl>> \o dict \o closed
         [] f = "brace_after" -> opened \o dict \o closed \o <<Sp, Word("ok"), Sym("}")>>
         [] f = "open_after" -> opened \o dict \o closed \o <<Sp, Sym("{"), Word("ok")>>
         [] f = "json_words" ->
               opened \o braced(joined(members(d, "sq"),
                                       <<<<"sq", "certain">>, Sym(":"), Sp, Word("true")>>))
               \o closed
         [] f = "python_words" ->
               opened \o braced(joined(members(d, "sq"),
                                       <<<<"sq", "certain">>, Sym(":"), Sp, Word("True")>>))
               \o closed
         [] f = "plain" -> <<Word("Result"), Sp, Word("is"), Sp>> \o members(d, "bare")
         [] f = "plain_caps" -> <<Word("Result"), Sp, Word("is"), Sp>> \o members(d, "caps")

Failure(transport) == [transport |-> transport, shape |-> None, text |-> None]

Answer(shape, form, category, confidence, reason) ==
    [transport |-> "ok", shape |-> shape,
     text |-> render([form |-> form, category |-> category, confidence |-> confidence,
                      reason |-> reason])]

\* What the provider call comes back with in a batch: no connection, a read
\* timeout, a configured category in another case, a configured category with
\* high and with low confidence, a category that is not configured, no category
LLMReplies == {
    Failure("unreachable"), Failure("read_timeout"),
    Answer("message", "json", Str("invoices"), Num(90), None),
    Answer("message", "json", Str("Receipts"), Num(90), None),
    Answer("message", "json", Str("Receipts"), Num(30), None),
    Answer("message", "json", Str("Taxes"), Num(90), None),
    Answer("message", "json", None, Num(90), None) }

Returned(value) == [exc |-> "none", msg |-> "", value |-> value]
Raise(exc, msg) == [exc |-> exc, msg |-> msg, value |-> None]

\* _http_post_json (lines 31-52): HTTPError and URLError become LLMError, a
\* timeout while waiting for or reading the response is neither
http_post_json(transport) ==
    CASE transport = "http_error" -> Raise("LLMError", "HTTP")
      [] transport \in {"unreachable", "connect_timeout"} -> Raise("LLMError", "Network error")
      [] transport = "read_timeout" -> Raise("TimeoutError", "timed out")
      [] transport = "non_json" -> Raise("LLMError", "Non-JSON response")
      [] OTHER -> Returned(None)

\* classify_with_uzu (lines 263-282): the text of the response
classify_with_uzu(reply) ==
    LET resp == http_post_json(reply.transport)
    IN IF resp.exc # "none" THEN resp
       ELSE CASE reply.shape = "not_object" -> Raise("AttributeError", "no attribute 'get'")
              [] reply.shape = "other_keys" -> Raise("LLMError", "Unexpected UZU response shape")
              [] OTHER -> Returned(reply.text)

\* str.strip() on the names of this model
strip(s) == IF s \in {"  ", ""} THEN "" ELSE IF s = " Invoices " THEN "Invoices" ELSE s

\* text.strip(): no blank at either end
RECURSIVE lstrip(_)
lstrip(t) == IF t # <<>> /\ t[1][1] = "ws" THEN lstrip(Tail(t)) ELSE t

RECURSIVE rstrip(_)
rstrip(t) == IF t # <<>> /\ t[Len(t)][1] = "ws" THEN rstrip(SubSeq(t, 1, Len(t) - 1)) ELSE t

text_strip(t) == rstrip(lstrip(t))

\* \s*: the first token from i on that is no blank
RECURSIVE skip_ws(_, _)
skip_ws(t, i) == IF i <= Len(t) /\ t[i][1] = "ws" THEN skip_ws(t, i + 1) ELSE i

IsToken(t, i, token) == i >= 1 /\ i <= Len(t) /\ t[i] = token

\* ^ and $ under re.MULTILINE: token i starts a line, a line ends before token i
LineStart(t, i) == i = 1 \/ t[i - 1] = Nl
LineEnd(t, i) == i > Len(t) \/ t[i] = Nl

\* _CODE_FENCE_RE, first alternative ^```(?:json)?\s* under re.IGNORECASE: where
\* its match at token i ends, 0 when it does not match there
fence_open(t, i) ==
    IF LineStart(t, i) /\ IsToken(t, i, Fence)
    THEN skip_ws(t, IF i + 1 <= Len(t) /\ t[i + 1][1] = "word" /\ Lower(t[i + 1][2]) = "json"
                    THEN i + 2 ELSE i + 1)
    ELSE 0

\* _CODE_FENCE_RE, second alternative \s*```$: where its match at token i ends,
\* 0 when it does not match there
fence_close(t, i) ==
    LET k == skip_ws(t, i)
    IN IF IsToken(t, k, Fence) /\ LineEnd(t, k + 1) THEN k + 1 ELSE 0

\* _CODE_FENCE_RE.sub("", t) (line 68): from left to right, each match is
\* removed and the search goes on behind it.  A fence that opens after prose
\* on the same line matches neither alternative and stays.
RECURSIVE fence_sub(_, _)
fence_sub(t, i) ==
    IF i > Len(t) THEN <<>>
    ELSE IF fence_open(t, i) # 0 THEN fence_sub(t, fence_open(t, i))
    ELSE IF fence_close(t, i) # 0 THEN fence_sub(t, fence_close(t, i))
    ELSE <<t[i]>> \o fence_sub(t, i + 1)

\* lines 70-75: typographic quotes become plain ones
replace_smart_quotes(t) ==
    [i \in DOMAIN t |-> IF t[i][1] = "sdq" THEN <<"dq", t[i][2]>>
                        ELSE IF t[i][1] = "ssq" THEN <<"sq", t[i][2]>>
                        ELSE t[i]]

\* lines 62 and 68-75: the cleaned text t2
cleaned(text) == replace_smart_quotes(text_strip(fence_sub(text_strip(text), 1)))

\* What a parser makes of the tokens from some token on: the value it read
\* and the token behind it, or a failure
ParseFail == [ok |-> FALSE, value |-> None, next |-> 0]
Parsed(value, next) == [ok |-> TRUE, value |-> value, next |-> next]

\* A string, a number or a word at token i.  JSON reads double-quoted strings
\* and true, false, null; a Python literal reads strings in either quote and
\* True, False, None.
parse_scalar(t, i, dialect) ==
    IF i > Len(t) THEN ParseFail
    ELSE CASE t[i][1] = "dq" -> Parsed(Str(t[i][2]), i + 1)
           [] t[i][1] = "sq" ->
                 IF dialect = "python" THEN Parsed(Str(t[i][2]), i + 1) ELSE ParseFail
           [] t[i][1] = "num" -> Parsed(Num(t[i][2]), i + 1)
           [] t[i][1] = "word" ->
                 IF t[i][2] = (IF dialect = "json" THEN "true" ELSE "True")
                 THEN Parsed(Bool(TRUE), i + 1)
                 ELSE IF t[i][2] = (IF dialect = "json" THEN "false" ELSE "False")
                 THEN Parsed(Bool(FALSE), i + 1)
                 ELSE IF t[i][2] = (IF dialect = "json" THEN "null" ELSE "None")
                 THEN Parsed(None, i + 1)
                 ELSE ParseFail
           [] OTHER -> ParseFail

\* key: value pairs from token i on, up to the closing brace, in the order
\* they are written; a Python literal may end with a comma before the brace
RECURSIVE parse_members(_, _, _, _)
parse_members(t, i, dialect, obj) ==
    LET key == parse_scalar(t, i, dialect)
        colon == skip_ws(t, key.next)
        val == parse_scalar(t, skip_ws(t, colon + 1), dialect)
        after == skip_ws(t, val.next)
        more == skip_ws(t, after + 1)
        put == Append(obj, <<key.value[2], val.value>>)
    IN IF ~key.ok \/ key.value = None \/ key.value[1] # "str" THEN ParseFail
       ELSE IF ~IsToken(t, colon, Sym(":")) THEN ParseFail
       ELSE IF ~val.ok THEN ParseFail
       ELSE IF IsToken(t, after, Sym("}")) THEN Parsed(put, after + 1)
       ELSE IF ~IsToken(t, after, Sym(",")) THEN ParseFail
       ELSE IF dialect = "python" /\ IsToken(t, more, Sym("}")) THEN Parsed(put, more + 1)
       ELSE parse_members(t, more, dialect, put)

\* An object that opens at token i
parse_object(t, i, dialect) ==
    IF ~IsToken(t, i, Sym("{")) THEN ParseFail
    ELSE IF IsToken(t, skip_ws(t, i + 1), Sym("}")) THEN Parsed(<<>>, skip_ws(t, i + 1) + 1)
    ELSE parse_members(t, skip_ws(t, i + 1), dialect, <<>>)

\* An object that is the whole of t
parse_whole(t, dialect) ==
    LET r == parse_object(t, skip_ws(t, 1), dialect)
    IN IF r.ok /\ skip_ws(t, r.next) > Len(t) THEN r ELSE ParseFail

\* json.loads(t) for a text that opens with a brace (lines 81, 114)
json_loads(t) == parse_whole(t, "json")

\* decoder.raw_decode(t2[i:]) (line 95): the object that opens at token i,
\* whatever follows it
raw_decode(t, i) == parse_object(t, i, "json")

\* ast.literal_eval(candidate) (line 121)
literal_eval(t) == parse_whole(t, "python")

\* parsed.get(key): the value of the last pair with this key, None without one
get(obj, key) ==
    LET at == {i \in DOMAIN obj : obj[i][1] = key}
    IN IF at = {} THEN None ELSE obj[CHOOSE i \in at : \A j \in at : i >= j][2]

\* The three keys llm_classify_category reads of the object (lines 335-337)
fields(obj) ==
    [category |-> get(obj, "category"), confidence |-> get(obj, "confidence"),
     reason |-> get(obj, "reason")]

NoFields == [category |-> None, confidence |-> None, reason |-> None]

Least(S) == CHOOSE i \in S : \A j \in S : i <= j
Greatest(S) == CHOOSE i \in S : \A j \in S : i >= j

\* [^'"]+ : the part of a quoted string before its first quote character
before_quote(s) == IF s = "Children's Books" THEN "Children" ELSE s

\* key\s*[:=]\s* at token i under re.IGNORECASE: the token of the value, 0
\* when the pattern does not match there.  A key written in quotes is no
\* match: its closing quote stands between the name and the colon.
value_after(t, i, key) ==
    LET sep == skip_ws(t, i + 1)
    IN IF t[i][1] = "word" /\ Lower(t[i][2]) = key
          /\ (IsToken(t, sep, Sym(":")) \/ IsToken(t, sep, Sym("=")))
          /\ skip_ws(t, sep + 1) <= Len(t)
       THEN skip_ws(t, sep + 1)
       ELSE 0

\* re.search(key\s*[:=]\s*['"]([^'"]+)['"]): group 1 of the leftmost match,
\* stripped
search_quoted(t, key) ==
    LET hits == {i \in DOMAIN t :
                   /\ value_after(t, i, key) # 0
                   /\ t[value_after(t, i, key)][1] \in {"dq", "sq"}
                   /\ before_quote(t[value_after(t, i, key)][2]) # ""}
    IN IF hits = {} THEN None
       ELSE Str(strip(before_quote(t[value_after(t, Least(hits), key)][2])))

\* re.search(confidence\s*[:=]\s*([0-9]*\.?[0-9]+)): group 1 of the leftmost
\* match, the digits of an unsigned number as a string
search_number(t, key) ==
    LET hits == {i \in DOMAIN t :
                   /\ value_after(t, i, key) # 0
                   /\ t[value_after(t, i, key)][1] = "num"
                   /\ t[value_after(t, i, key)][2] >= 0}
    IN IF hits = {} THEN None
       ELSE NumStr(t[value_after(t, Least(hits), key)][2])

\* _extract_object_by_regex (lines 131-153)
extract_object_by_regex(t) ==
    [category |-> search_quoted(t, "category"),
     confidence |-> search_number(t, "confidence"),
     reason |-> search_quoted(t, "reason")]

\* lines 78-85: the cleaned text is one JSON object
direct(t2) ==
    IF t2 # <<>> /\ t2[1] = Sym("{") /\ t2[Len(t2)] = Sym("}") THEN json_loads(t2)
    ELSE ParseFail

\* lines 89-104: raw_decode from every "{"; the first object with a string
\* category, else the first object
decoded(t2) ==
    LET objects == {i \in DOMAIN t2 : raw_decode(t2, i).ok}
        named == {i \in objects :
                    LET c == get(raw_decode(t2, i).value, "category")
                    IN c # None /\ c[1] = "str"}
    IN IF named # {} THEN raw_decode(t2, Least(named))
       ELSE IF objects # {} THEN raw_decode(t2, Least(objects))
       ELSE ParseFail

\* lines 107-113: the span from the first "{" to the last "}", <<>> when
\* there is none
span(t2) ==
    LET opens == {i \in DOMAIN t2 : t2[i] = Sym("{")}
        closes == {i \in DOMAIN t2 : t2[i] = Sym("}")}
    IN IF opens = {} \/ closes = {} \/ Greatest(closes) <= Least(opens) THEN <<>>
       ELSE SubSeq(t2, Least(opens), Greatest(closes))

\* _extract_json_object without the literal_eval attempt of lines 120-125
extract_json_object_json_only(text) ==
    LET t2 == cleaned(text)
        or_else(parsed, otherwise) ==
            IF parsed.ok THEN Returned(fields(parsed.value)) ELSE otherwise
        of_span(candidate) ==
            IF candidate = <<>> THEN Returned(extract_object_by_regex(t2))
            ELSE or_else(json_loads(candidate), Returned(extract_object_by_regex(t2)))
    IN IF text_strip(text) = <<>> THEN Raise("LLMError", "Empty model output")
       ELSE or_else(direct(t2), or_else(decoded(t2), of_span(span(t2))))

\* _extract_json_object (lines 58-128); of the object it returns, the three
\* keys its caller reads
extract_json_object(text) ==
    LET t2 == cleaned(text)
        \* a parse that succeeded is returned, else the next attempt is made
        or_else(parsed, otherwise) ==
            IF parsed.ok THEN Returned(fields(parsed.value)) ELSE otherwise
        \* lines 107-128: the span as JSON, then as a Python literal, then
        \* the regex fallback; the regex fallback at once when there is no span
        of_span(candidate) ==
            IF candidate = <<>> THEN Returned(extract_object_by_regex(t2))
            ELSE or_else(json_loads(candidate),
                         or_else(literal_eval(candidate),
                                 Returned(extract_object_by_regex(t2))))
    IN IF text_strip(text) = <<>> THEN Raise("LLMError", "Empty model output")
       ELSE or_else(direct(t2), or_else(decoded(t2), of_span(span(t2))))

\* Path(path_str).parts for the paths of this model; a text is the sequence of
\* its segments and separators
PathParts(path_str) ==
    CASE path_str = "/home/u/Invoices/inv.pdf" -> <<"/", "home", "u", "Invoices", "inv.pdf">>
      [] path_str = "/home/u/Invoices/copy.pdf" -> <<"/", "home", "u", "Invoices", "copy.pdf">>
      [] path_str = "/home/u/Misc/scan.pdf" -> <<"/", "home", "u", "Misc", "scan.pdf">>
      [] path_str = "/home/u/inv.pdf" -> <<"/", "home", "u", "inv.pdf">>
      [] OTHER -> <<"/", "srv", "docs", "a.pdf">>

\* Path.home().parts
HomeParts == <<"/", "home", "u">>

\* "/".join(parts)
RECURSIVE join(_)
join(parts) ==
    IF parts = <<>> THEN <<>>
    ELSE IF Len(parts) = 1 THEN parts
    ELSE <<parts[1], "/">> \o join(Tail(parts))

\* str(p) of an absolute path: the root, then the segments joined
path_str_of(parts) == <<"/">> \o join(Tail(parts))

startswith(s, prefix) == Len(s) >= Len(prefix) /\ SubSeq(s, 1, Len(prefix)) = prefix

\* _format_source_path (lines 164-186); "..." stands for the ellipsis character
format_source_path(path_str, mode, tail_parts) ==
    IF path_str = None \/ path_str = Some("") THEN None
    ELSE LET parts == PathParts(path_str[1])
             s == path_str_of(parts)
             home == path_str_of(HomeParts)
             n == IF tail_parts > 1 THEN tail_parts ELSE 1
             first == IF n >= Len(parts) THEN 1 ELSE Len(parts) - n + 1
         IN CASE mode = "basename" -> Some(<<parts[Len(parts)]>>)
              [] mode = "full" ->
                    IF startswith(s, home \o <<"/">>)
                    THEN Some(<<"~">> \o SubSeq(s, Len(home) + 1, Len(s)))
                    ELSE Some(s)
              [] OTHER -> Some(<<"...", "/">> \o join(SubSeq(parts, first, Len(parts))))

\* The category names of this library and of the provider's answers, and
\* their normalized forms
Names ==
    {"Invoices", "invoices", "INVOICES", " Invoices ", "Receipts", "receipts",
     "Taxes", "taxes", "Unsorted", "unsorted", "Statements", "statements",
     "Misc", "misc", "Bills", "bills", "Archive", "archive", "Manuals & Guides",
     "manuals guides", "Manuals_Guides", "Children's Books", "children s books",
     "Children", "children", ""}

\* The characters of a name
Spell(name) ==
    CASE name = "Invoices" -> <<"I", "n", "v", "o", "i", "c", "e", "s">>
      [] name = "invoices" -> <<"i", "n", "v", "o", "i", "c", "e", "s">>
      [] name = "INVOICES" -> <<"I", "N", "V", "O", "I", "C", "E", "S">>
      [] name = " Invoices " -> <<" ", "I", "n", "v", "o", "i", "c", "e", "s", " ">>
      [] name = "Receipts" -> <<"R", "e", "c", "e", "i", "p", "t", "s">>
      [] name = "receipts" -> <<"r", "e", "c", "e", "i", "p", "t", "s">>
      [] name = "Taxes" -> <<"T", "a", "x", "e", "s">>
      [] name = "taxes" -> <<"t", "a", "x", "e", "s">>
      [] name = "Unsorted" -> <<"U", "n", "s", "o", "r", "t", "e", "d">>
      [] name = "unsorted" -> <<"u", "n", "s", "o", "r", "t", "e", "d">>
      [] name = "Statements" -> <<"S", "t", "a", "t", "e", "m", "e", "n", "t", "s">>
      [] name = "statements" -> <<"s", "t", "a", "t", "e", "m", "e", "n", "t", "s">>
      [] name = "Misc" -> <<"M", "i", "s", "c">>
      [] name = "misc" -> <<"m", "i", "s", "c">>
      [] name = "Bills" -> <<"B", "i", "l", "l", "s">>
      [] name = "bills" -> <<"b", "i", "l", "l", "s">>
      [] name = "Archive" -> <<"A", "r", "c", "h", "i", "v", "e">>
      [] name = "archive" -> <<"a", "r", "c", "h", "i", "v", "e">>
      [] name = "Manuals & Guides" -> <<"M", "a", "n", "u", "a", "l", "s", " ", "&", " ", "G", "u", "i", "d", "e", "s">>
      [] name = "manuals guides" -> <<"m", "a", "n", "u", "a", "l", "s", " ", "g", "u", "i", "d", "e", "s">>
      [] name = "Manuals_Guides" -> <<"M", "a", "n", "u", "a", "l", "s", "_", "G", "u", "i", "d", "e", "s">>
      [] name = "Children's Books" -> <<"C", "h", "i", "l", "d", "r", "e", "n", "'", "s", " ", "B", "o", "o", "k", "s">>
      [] name = "children s books" -> <<"c", "h", "i", "l", "d", "r", "e", "n", " ", "s", " ", "b", "o", "o", "k", "s">>
      [] name = "Children" -> <<"C", "h", "i", "l", "d", "r", "e", "n">>
      [] name = "children" -> <<"c", "h", "i", "l", "d", "r", "e", "n">>
      [] name = "" -> <<>>

\* The name that has these characters
Unspell(s) == CHOOSE name \in Names : Spell(name) = s

UpperCase == <<"A", "B", "C", "D", "E", "F", "G", "H", "I", "J", "K", "L", "M",
               "N", "O", "P", "Q", "R", "S", "T", "U", "V", "W", "X", "Y", "Z">>
LowerCase == <<"a", "b", "c", "d", "e", "f", "g", "h", "i", "j", "k", "l", "m",
               "n", "o", "p", "q", "r", "s", "t", "u", "v", "w", "x", "y", "z">>
Digits == {"0", "1", "2", "3", "4", "5", "6", "7", "8", "9"}

\* str.lower() on one character
lower_char(ch) ==
    IF \E i \in DOMAIN UpperCase : UpperCase[i] = ch
    THEN LowerCase[CHOOSE i \in DOMAIN UpperCase : UpperCase[i] = ch]
    ELSE ch

\* [a-z0-9]
IsAlnum(ch) == ch \in Digits \/ \E i \in DOMAIN LowerCase : LowerCase[i] = ch

\* re.sub(r"[^a-z0-9]+", " ", s): every run of other characters becomes one space
RECURSIVE sub_runs(_)
sub_runs(s) ==
    IF s = <<>> THEN <<>>
    ELSE IF IsAlnum(s[1]) THEN <<s[1]>> \o sub_runs(Tail(s))
    ELSE IF Len(s) > 1 /\ ~IsAlnum(s[2]) THEN sub_runs(Tail(s))
    ELSE <<" ">> \o sub_runs(Tail(s))

\* str.strip() of a text whose only blank is the space
strip_spaces(s) ==
    LET a == IF s # <<>> /\ s[1] = " " THEN Tail(s) ELSE s
    IN IF a # <<>> /\ a[Len(a)] = " " THEN SubSeq(a, 1, Len(a) - 1) ELSE a

\* _normalize_category_name (lines 155-160): lower case, runs of punctuation
\* and blanks to one space, no space at either end
normalize_chars(s) == strip_spaces(sub_runs([i \in DOMAIN s |-> lower_char(s[i])]))

\* _normalize_category_name of every name, computed once
NormalizedNames == [name \in Names |-> Unspell(normalize_chars(Spell(name)))]

normalize_category_name(name) == NormalizedNames[name]

\* catalog.py lines 67-71, llm.py line 308: the configured names, then the default
Allowed == {Rules[i].name : i \in DOMAIN Rules} \cup {DefaultCategory}

\* llm.py line 309: the normalized form of every allowed name
normalized == [c \in Allowed |-> normalize_category_name(c)]

Clamp(conf) == IF conf < 0 THEN 0 ELSE IF conf > 100 THEN 100 ELSE conf

Classification(category, confidence, reason) ==
    [raised |-> FALSE, exc |-> "none", category |-> category, confidence |-> confidence,
     reason |-> reason]

\* An exception leaves llm_classify_category
Raises(exc, msg) ==
    [raised |-> TRUE, exc |-> exc, category |-> DefaultCategory, confidence |-> 0,
     reason |-> msg]

\* lines 351-354: float(conf_raw), 0.0 when it raises (None, a string that
\* writes no number); float(True) is 1.0
float_or_zero(value) ==
    IF value = None THEN 0
    ELSE CASE value[1] \in {"num", "numstr"} -> value[2]
           [] value[1] = "bool" -> IF value[2] THEN 100 ELSE 0
           [] OTHER -> 0

\* lines 334-364: from the parsed fields to the classification
classify_parsed(parsed) ==
    IF parsed.category = None \/ parsed.category[1] # "str"
    THEN Classification(DefaultCategory, 0, "missing/invalid category; defaulted")
    ELSE LET cat_norm == normalize_category_name(parsed.category[2])
             matches == {c \in Allowed : normalized[c] = cat_norm}
         IN Classification(
               IF matches = {} THEN DefaultCategory ELSE CHOOSE c \in matches : TRUE,
               Clamp(float_or_zero(parsed.confidence)),
               IF parsed.reason = None THEN "llm classified" ELSE parsed.reason[2])

\* llm_classify_category (lines 304-364)
llm_classify_category(reply) ==
    LET raw_text == classify_with_uzu(reply)
        \* lines 328-364: what follows _extract_json_object
        classified(parsed) ==
            IF parsed.exc # "none" THEN Raises(parsed.exc, parsed.msg)
            ELSE classify_parsed(parsed.value)
    IN IF raw_text.exc # "none" THEN Raises(raw_text.exc, raw_text.msg)
       ELSE classified(extract_json_object(raw_text.value))

-----------------------------------------------------------------------------
(* db.py: the statements of the categorization pass *)

\* UPDATE documents SET <metadata columns> WHERE hash = ?
update_document_metadata(db, hash_hex, title) ==
    [db EXCEPT !.documents =
        {IF d.hash = hash_hex THEN [d EXCEPT !.title = title] ELSE d : d \in @}]

\* UPDATE documents SET category, category_score, category_reason, categorized_at
\* WHERE hash = ?
update_document_category_named_only(db, hash_hex, category, score, reason, categorized_at) ==
    [db EXCEPT !.documents =
        {IF d.hash = hash_hex
         THEN [d EXCEPT !.category = IF category = DefaultCategory THEN None
                                     ELSE Some(category),
                        !.category_score = Some(score),
                        !.category_reason = Some(reason),
                        !.categorized_at = Some(categorized_at)]
         ELSE d : d \in @}]

update_document_category(db, hash_hex, category, score, reason, categorized_at) ==
    [db EXCEPT !.documents =
        {IF d.hash = hash_hex
         THEN [d EXCEPT !.category = Some(category), !.category_score = Some(score),
                        !.category_reason = Some(reason),
                        !.categorized_at = Some(categorized_at)]
         ELSE d : d \in @}]

\* SELECT * FROM documents ORDER BY last_seen_at DESC, whatever the caller's
\* WHERE clause
iter_documents_all(db, uncategorized_only) ==
    LET hashes == {d.hash : d \in db.documents}
        seen(h) == (CHOOSE d \in db.documents : d.hash = h).last_seen_at
    IN {order \in [1..Cardinality(hashes) -> hashes] :
          /\ \A i, j \in DOMAIN order : i # j => order[i] # order[j]
          /\ \A i, j \in DOMAIN order : i < j => seen(order[i]) >= seen(order[j])}

\* iter_documents: the rows the WHERE clause keeps, ORDER BY last_seen_at DESC.
\* Every order of the hashes that the sort allows.
iter_documents(db, uncategorized_only) ==
    LET rows == {d \in db.documents :
                    ~uncategorized_only \/ d.category = None \/ d.category = Some("")}
        hashes == {d.hash : d \in rows}
        seen(h) == (CHOOSE d \in rows : d.hash = h).last_seen_at
    IN {order \in [1..Cardinality(hashes) -> hashes] :
          /\ \A i, j \in DOMAIN order : i # j => order[i] # order[j]
          /\ \A i, j \in DOMAIN order : i < j => seen(order[i]) >= seen(order[j])}

\* _latest_source_maps: the ok sources of a hash that were seen last
latest_sources(db, hash_hex) ==
    LET ok == {r \in db.source_files : r.hash = Some(hash_hex) /\ r.status = "ok"}
    IN {r \in ok : \A r2 \in ok : r.last_seen_at >= r2.last_seen_at}

-----------------------------------------------------------------------------
(* util.py, organize.py: the categorized view.  An entry of the view is      *)
(* [dir, stem, prefix, n, kind, target]: the file                            *)
(* categorized/<dir>/<stem>__<prefix>.pdf when n = 1 and                      *)
(* categorized/<dir>/<stem>__<prefix>__<n>.pdf otherwise.                     *)

\* A display name that is a run of hex digits (name_resolver's h[:12])
Hex(digits) == <<"hex", digits>>

\* util.safe_filename (lines 52-60): characters outside [A-Za-z0-9._ -] become "_",
\* an empty result becomes "untitled"
safe_filename(name) ==
    IF strip(name) = "" THEN "untitled"
    ELSE IF name = "Receipts & Invoices" THEN "Receipts _ Invoices"
    ELSE IF name = "Tax/2025" THEN "Tax_2025"
    ELSE strip(name)

\* b[:-4] if b.lower().endswith(".pdf") else b
StripPdf(b) == IF b = "inv.pdf" THEN "inv" ELSE
               IF b = "copy.pdf" THEN "copy" ELSE
               IF b = "scan.pdf" THEN "scan" ELSE
               IF b = "SCAN.PDF" THEN "SCAN" ELSE b

\* hash_hex[:8] and h[:12], at the scale of this model's four-digit digests
digest_prefix(hash_hex) == SubSeq(hash_hex, 1, 2)
digest_short(hash_hex) == SubSeq(hash_hex, 1, 3)

\* catalog.py lines 240-248: title, else the latest basename without ".pdf",
\* else the shortened digest.  doc carries the title and the basename the two
\* maps of categorize_library hold for its hash.
name_resolver(doc) ==
    IF doc.title # None /\ strip(doc.title[1]) # "" THEN Str(doc.title[1])
    ELSE IF doc.basename # None /\ doc.basename[1] # "" THEN Str(StripPdf(doc.basename[1]))
    ELSE Hex(digest_short(doc.hash))

\* organize.py lines 77-82: the sanitized name without its ".pdf"
stem_of(doc) ==
    LET name == name_resolver(doc)
    IN IF name[1] = "hex" THEN name ELSE Str(StripPdf(safe_filename(name[2])))

\* line 72: (doc.get("category") or default_category).strip() or default_category
category_of(doc, default_category) ==
    LET given == IF doc.category = None \/ doc.category = Some("")
                 THEN default_category ELSE doc.category[1]
    IN IF strip(given) = "" THEN default_category ELSE strip(given)

EntryPath(e) == [dir |-> e.dir, stem |-> e.stem, prefix |-> e.prefix, n |-> e.n]

\* candidate.exists() or candidate.is_symlink()
entry_exists(entries, path) == \E e \in entries : EntryPath(e) = path

\* lines 83-87: the first free name among <stem>__<prefix>.pdf, ...__2.pdf, ...
RECURSIVE free_candidate(_, _)
free_candidate(entries, path) ==
    IF entry_exists(entries, path)
    THEN free_candidate(entries, [path EXCEPT !.n = @ + 1])
    ELSE path

Linkers == {"symlink", "hardlink", "copy"}

\* What the file system refuses for one document of the loop:
\*   "mkdir"    ensure_dir(cat_dir) raises OSError (line 75, outside the try)
\*   "link"     the linker of the mode raises OSError and leaves nothing at the
\*              entry path; a symbolic link can be made there
\*   "both"     the linker raises and so does every symlink_to at the entry
\*              path (a file system with neither kind of link)
\*   "partial"  shutil.copy2 raises after it wrote a part of the file
\*   "attrs"    shutil.copy2 raises in copystat, after it wrote the whole file
\* The last two are failures of the copy linker alone; symlink_to and os.link
\* make their entry in one step or not at all.
Failures == {"mkdir", "link", "both", "partial", "attrs"}

\* fault: pairs <<digest, failure>>, at most one for a digest; the failure of
\* the document with this digest, "none" when it has none
failure_of(fault, hash_hex) ==
    IF \E f \in fault : f[1] = hash_hex
    THEN (CHOOSE f \in fault : f[1] = hash_hex)[2]
    ELSE "none"

\* line 75: ensure_dir(cat_dir) raises
mkdir_raises(what) == what = "mkdir"

\* line 91: linker(vault_path, candidate) raises OSError
linker_raises(link_mode, what) ==
    \/ what \in {"link", "both"}
    \/ link_mode = "copy" /\ what \in {"partial", "attrs"}

\* line 97: _relative_symlink(vault_path, candidate) raises OSError
fallback_raises(what) == what = "both"

\* The entry a linker makes at path
entry_at(path, kind, vault_relpath) ==
    [dir |-> path.dir, stem |-> path.stem, prefix |-> path.prefix, n |-> path.n,
     kind |-> kind,
     target |-> IF kind = "symlink" THEN <<"..", "..">> \o vault_relpath
                ELSE vault_relpath]

\* _relative_symlink, _hardlink, _copy (lines 11-30): any entry at link_path is
\* removed, then the link is made
link(entries, path, kind, vault_relpath) ==
    {e \in entries : EntryPath(e) # path} \cup {entry_at(path, kind, vault_relpath)}

\* lines 26-30: shutil.copy2 writes the copy in place, so a copy that stops
\* inside it (an error, a kill) leaves a file that holds a part of the blob
partial_copy(e) == [e EXCEPT !.kind = "partial"]

\* lines 26-30: what a linker that raises leaves at path
left_by(link_mode, what, path, vault_relpath) ==
    IF link_mode = "copy" /\ what = "partial"
    THEN {partial_copy(entry_at(path, "copy", vault_relpath))}
    ELSE IF link_mode = "copy" /\ what = "attrs"
    THEN {entry_at(path, "copy", vault_relpath)}
    ELSE {}

\* A failed link attempt is left to the caller whatever the mode
link_or_raise(link_mode, what) == IF linker_raises(link_mode, what) THEN "raise" ELSE link_mode

\* lines 89-101: what the try/except makes of one link attempt: the kind of
\* entry that is created, or "raise".  In hardlink mode the except branch makes
\* a symbolic link, outside any try: when that fails too, its error leaves the
\* loop.
link_or_fallback(link_mode, what) ==
    IF ~linker_raises(link_mode, what) THEN link_mode
    ELSE IF link_mode = "hardlink"
    THEN (IF fallback_raises(what) THEN "raise" ELSE "symlink")
    ELSE "raise"

\* lines 72-87: the entry path of a document, the first free one of its names
candidate_for(doc, entries, default_category) ==
    free_candidate(entries,
        [dir |-> safe_filename(category_of(doc, default_category)), stem |-> stem_of(doc),
         prefix |-> digest_prefix(doc.hash), n |-> 1])

\* lines 66-101: the loop over the documents.  fault: what the file system
\* refuses, for each document.
RECURSIVE link_documents(_, _, _, _, _, _, _)
link_documents(documents, i, entries, by_category, link_mode, fault, default_category) ==
    IF i > Len(documents)
    THEN [raised |-> FALSE, exc |-> "none", view |-> entries, by_category |-> by_category,
          created |-> i - 1]
    ELSE LET doc == documents[i]
             category == category_of(doc, default_category)
             what == failure_of(fault, doc.hash)
             candidate == candidate_for(doc, entries, default_category)
             counted == [k \in DOMAIN by_category \cup {category} |->
                            IF k = category
                            THEN (IF k \in DOMAIN by_category THEN by_category[k] ELSE 0) + 1
                            ELSE by_category[k]]
             kind == link_or_fallback(link_mode, what)
         IN IF mkdir_raises(what)
            THEN [raised |-> TRUE, exc |-> "OSError", view |-> entries,
                  by_category |-> by_category, created |-> i - 1]
            ELSE IF kind = "raise"
            THEN [raised |-> TRUE, exc |-> "OSError",
                  view |-> entries \cup left_by(link_mode, what, candidate, doc.vault_relpath),
                  by_category |-> by_category, created |-> i - 1]
            ELSE link_documents(documents, i + 1,
                     link(entries, candidate, kind, doc.vault_relpath),
                     counted, link_mode, fault, default_category)

\* build_categorized_view (lines 33-104).  existing: the entries under the view
\* root when it is called.
build_categorized_view(existing, documents, link_mode, refresh, default_category, fault) ==
    LET emptied == IF refresh THEN {} ELSE existing
    IN IF link_mode \notin Linkers
       THEN [raised |-> TRUE, exc |-> "ValueError", view |-> emptied, by_category |-> <<>>,
             created |-> 0]
       ELSE LET r == link_documents(documents, 1, emptied, <<>>, link_mode, fault,
                                    default_category)
            IN IF r.raised THEN r
               ELSE [r EXCEPT !.by_category =
                       [k \in DOMAIN r.by_category \cup {"_total_links"} |->
                           IF k = "_total_links" THEN r.created ELSE r.by_category[k]]]

\* lines 50-56: what a kill inside the refresh loop leaves of the entries.  The
\* category directories are removed one after the other, each by rmtree, in
\* the order the directory listing gives them: at most one directory has lost
\* a part of its entries.
refresh_stages(existing) ==
    {left \in SUBSET existing :
        Cardinality({dir \in {e.dir : e \in existing} :
                        /\ \E e \in existing : e.dir = dir /\ e \in left
                        /\ \E e \in existing : e.dir = dir /\ e \notin left}) <= 1}

\* lines 66-101: what the view root holds at the points of the loop where the
\* process can be killed: before the link of document i, inside its copy, and
\* at every later point (symlink_to and os.link make their entry in one step);
\* when document i raises, the loop ends with what its linker left
RECURSIVE link_stages(_, _, _, _, _, _)
link_stages(documents, i, entries, link_mode, fault, default_category) ==
    IF i > Len(documents) THEN {entries}
    ELSE LET doc == documents[i]
             one == link_documents(<<doc>>, 1, entries, <<>>, link_mode, fault,
                                   default_category)
             inside == IF link_mode = "copy" /\ ~mkdir_raises(failure_of(fault, doc.hash))
                       THEN {entries \cup {partial_copy(entry_at(
                                 candidate_for(doc, entries, default_category), "copy",
                                 doc.vault_relpath))}}
                       ELSE {}
         IN {entries} \cup inside
            \cup (IF one.raised THEN {one.view}
                  ELSE link_stages(documents, i + 1, one.view, link_mode, fault,
                                   default_category))

\* lines 47-101: what the view root holds at the points of the call where the
\* process can be killed: inside or after the refresh loop, and inside or
\* after the loop over the documents
rebuild_stages(existing, documents, link_mode, refresh, default_category, fault) ==
    (IF refresh THEN refresh_stages(existing) ELSE {existing})
    \cup (IF link_mode \in Linkers
          THEN link_stages(documents, 1, IF refresh THEN {} ELSE existing, link_mode, fault,
                           default_category)
          ELSE {})

-----------------------------------------------------------------------------
(* catalog.py: categorize_library *)

MinConfidence == 60

should_call_llm_any_mode(llm_mode, final_category, final_score, final_reason) == TRUE

\* lines 176-181 alone: the rule result decides in every mode
should_call_llm_when_unsure(llm_mode, final_category, final_score, final_reason) ==
    \/ final_category = DefaultCategory
    \/ final_reason[1] = "below min_score; defaulted"
    \/ final_score < min_score

\* lines 174-181
should_call_llm(llm_mode, final_category, final_score, final_reason) ==
    IF llm_mode = "fallback"
    THEN \/ final_category = DefaultCategory
         \/ final_reason[1] = "below min_score; defaulted"
         \/ final_score < min_score
    ELSE llm_mode = "always"

merge_ungated(cat_rules, llm_result) ==
    [category |-> llm_result.category,
     score |-> 10 * llm_result.confidence * (Micro \div 100),
     reason |-> <<"llm:uzu", llm_result.confidence, llm_result.reason>>,
     used |-> 1, failed |-> 0]

\* lines 205-221: what the iteration keeps of the rule result and the LLM result
merge(cat_rules, llm_result) ==
    IF llm_result.exc = "LLMError"
    THEN [category |-> cat_rules.category, score |-> cat_rules.score,
          reason |-> cat_rules.reason \o <<<<"| llm_error", llm_result.reason>>>>,
          used |-> 0, failed |-> 1]
    ELSE IF llm_result.confidence >= MinConfidence
    THEN [category |-> llm_result.category,
          score |-> 10 * llm_result.confidence * (Micro \div 100),
          reason |-> <<"llm:uzu", llm_result.confidence, llm_result.reason>>,
          used |-> 1, failed |-> 0]
    ELSE [category |-> cat_rules.category, score |-> cat_rules.score,
          reason |-> cat_rules.reason \o <<<<"| llm:uzu low_conf", llm_result.confidence>>>>,
          used |-> 0, failed |-> 0]

\* The values a caller writes for an enumerated option, in this model
OptionWords ==
    {"auto", "mdfind", "walk", "find", " Walk ", " Find ", "off", "uzu", " UZU ",
     "openai", "fallback", "always", "Always", "Fallback", "never", "basename",
     "tail", "full", " Full", "none", ""}

\* The characters of an option value
SpellOption(w) ==
    CASE w = "auto" -> <<"a", "u", "t", "o">>
      [] w = "mdfind" -> <<"m", "d", "f", "i", "n", "d">>
      [] w = "walk" -> <<"w", "a", "l", "k">>
      [] w = "find" -> <<"f", "i", "n", "d">>
      [] w = " Walk " -> <<" ", "W", "a", "l", "k", " ">>
      [] w = " Find " -> <<" ", "F", "i", "n", "d", " ">>
      [] w = "off" -> <<"o", "f", "f">>
      [] w = "uzu" -> <<"u", "z", "u">>
      [] w = " UZU " -> <<" ", "U", "Z", "U", " ">>
      [] w = "openai" -> <<"o", "p", "e", "n", "a", "i">>
      [] w = "fallback" -> <<"f", "a", "l", "l", "b", "a", "c", "k">>
      [] w = "always" -> <<"a", "l", "w", "a", "y", "s">>
      [] w = "Always" -> <<"A", "l", "w", "a", "y", "s">>
      [] w = "Fallback" -> <<"F", "a", "l", "l", "b", "a", "c", "k">>
      [] w = "never" -> <<"n", "e", "v", "e", "r">>
      [] w = "basename" -> <<"b", "a", "s", "e", "n", "a", "m", "e">>
      [] w = "tail" -> <<"t", "a", "i", "l">>
      [] w = "full" -> <<"f", "u", "l", "l">>
      [] w = " Full" -> <<" ", "F", "u", "l", "l">>
      [] w = "none" -> <<"n", "o", "n", "e">>
      [] w = "" -> <<>>

\* The option value that has these characters
UnspellOption(chars) == CHOOSE w \in OptionWords : SpellOption(w) = chars

\* str.lower().strip() of every option value, computed once
LowerStripped ==
    [w \in OptionWords |->
        UnspellOption(strip_spaces([i \in DOMAIN SpellOption(w) |->
                                        lower_char(SpellOption(w)[i])]))]

\* scanner.py line 181, catalog.py lines 75-77: .lower().strip()
lower_strip(w) == LowerStripped[w]

\* catalog.py lines 75-77: (x or default).lower().strip(); None and the empty
\* string give the default
normal_option(x, default) == lower_strip(IF x = None \/ x[1] = "" THEN default ELSE x[1])

\* scanner.py lines 181-183: the method is normalised, then tested
ScanMethods == {"auto", "mdfind", "walk"}
valid_method(method) == lower_strip(method) \in ScanMethods

\* catalog.py lines 75-84: the options are normalised, then tested
valid_llm_options(llm_provider, llm_mode, llm_path_mode) ==
    /\ normal_option(llm_provider, "off") \in {"off", "uzu"}
    /\ normal_option(llm_mode, "fallback") \in {"fallback", "always"}
    /\ normal_option(llm_path_mode, "tail") \in {"basename", "tail", "full"}

\* lines 60-106: the library is initialized, the options are normalised and
\* pass their tests; the connection opens, the documents are selected and the
\* counters zeroed
CatBegin(llm_provider, llm_mode, llm_path_mode, recategorize_all) ==
    /\ Idle
    /\ clock < MaxPasses
    /\ valid_llm_options(llm_provider, llm_mode, llm_path_mode)
    /\ pc' = "cat"
    /\ clock' = clock + 1
    /\ conn' = disk
    /\ opts' = [llm_provider |-> normal_option(llm_provider, "off"),
                llm_mode |-> normal_option(llm_mode, "fallback"),
                recategorize_all |-> recategorize_all]
    /\ candidates' \in iter_documents(disk, ~recategorize_all)
    /\ idx' = 1
    /\ cstats' = ZeroCat
    /\ loc' = NoLoc
    /\ answers' = <<>>
    /\ UNCHANGED <<fs, vault, tmp, disk, stats, outcome, returned>>
    /\ UNCHANGED <<raceVars, fnVars, view>>
    /\ initialized' = TRUE

\* lines 108-231: one document, cat_rules being the result of the rules
\* (lines 157-167) and llm_result what the LLM call of lines 186-219 gives for
\* the provider's reply
categorize_one(src, title, reply, cat_rules, llm_result) ==
    /\ pc = "cat"
    /\ idx <= Len(candidates)
    /\ LET hash_hex == candidates[idx]
           latest == latest_sources(conn, hash_hex)
           called == /\ opts.llm_provider # "off"
                     /\ should_call_llm(opts.llm_mode, cat_rules.category, cat_rules.score,
                                        cat_rules.reason)
           final == IF called THEN merge(cat_rules, llm_result)
                    ELSE [category |-> cat_rules.category, score |-> cat_rules.score,
                          reason |-> cat_rules.reason, used |-> 0, failed |-> 0]
       IN /\ IF latest = {} THEN src = None ELSE src # None /\ src[1] \in latest
          /\ ~called => reply = Failure("unreachable")
          /\ called => llm_result.exc \in {"none", "LLMError"}
          /\ conn' = update_document_category(
                        update_document_metadata(conn, hash_hex, title),
                        hash_hex, final.category, final.score, final.reason, clock)
          /\ cstats' = [docs_categorized |-> cstats.docs_categorized + 1,
                        llm_calls |-> cstats.llm_calls + (IF called THEN 1 ELSE 0),
                        llm_used |-> cstats.llm_used + final.used,
                        llm_failed |-> cstats.llm_failed + final.failed]
          /\ loc' = [hash |-> hash_hex, cat_rules |-> cat_rules, called |-> called,
                     llm_result |-> IF called THEN llm_result ELSE None]
          /\ answers' = Append(answers, [hash |-> hash_hex, called |-> called,
                                         reply |-> IF called THEN reply ELSE None])
    /\ disk' = executed(disk, conn')
    /\ idx' = idx + 1
    /\ UNCHANGED <<fs, vault, tmp, pc, clock, candidates, opts, stats, outcome, returned>>
    /\ UNCHANGED <<raceVars, fnVars, view>>
    /\ UNCHANGED initialized

\* lines 112-113 and 157-167: the rules on the path and base name of the
\* latest source (the name of the vault blob when there is none) and on the title
rule_categorize(src, title) ==
    LET src_path == IF src = None THEN None ELSE Some(src[1].source_path)
        src_base == IF src = None THEN Some("blob.pdf") ELSE Some(src[1].source_basename)
    IN categorize(Cfg, src_path, src_base, title, None, None)

\* lines 108-231 for one document and the reply of the provider
CatDoc(src, title, reply) ==
    categorize_one(src, title, reply, rule_categorize(src, title),
                   llm_classify_category(reply))

\* lines 186-219: the LLM call raises what except LLMError does not catch; the
\* finally clause (lines 269-270) closes the connection without a commit
llm_call_raises(src, title, reply, cat_rules, llm_result) ==
    /\ pc = "cat"
    /\ idx <= Len(candidates)
    /\ LET hash_hex == candidates[idx]
           latest == latest_sources(conn, hash_hex)
           called == /\ opts.llm_provider # "off"
                     /\ should_call_llm(opts.llm_mode, cat_rules.category, cat_rules.score,
                                        cat_rules.reason)
       IN /\ IF latest = {} THEN src = None ELSE src # None /\ src[1] \in latest
          /\ called
          /\ llm_result.exc \notin {"none", "LLMError"}
          /\ loc' = [hash |-> hash_hex, cat_rules |-> cat_rules, called |-> called,
                     llm_result |-> llm_result]
    /\ answers' = <<>>
    /\ conn' = disk
    /\ pc' = "cat_raised"
    /\ candidates' = <<>>
    /\ idx' = 0
    /\ cstats' = ZeroCat
    /\ opts' = NoOpts
    /\ UNCHANGED <<fs, vault, tmp, disk, clock, stats, outcome, returned>>
    /\ UNCHANGED <<raceVars, fnVars, view>>
    /\ UNCHANGED initialized

\* lines 186-219 and 269-270 for one document and the reply of the provider
CatLLMRaises(src, title, reply) ==
    llm_call_raises(src, title, reply, rule_categorize(src, title),
                    llm_classify_category(reply))

CatEnd ==
    /\ candidates' = <<>>
    /\ idx' = 0
    /\ cstats' = ZeroCat
    /\ opts' = NoOpts
    /\ loc' = NoLoc
    /\ answers' = <<>>

\* lines 237-248: the basename name_resolver finds for a hash (one of the
\* latest ok sources; none when the hash has no ok source)
view_basenames(db, hash_hex) ==
    IF latest_sources(db, hash_hex) = {} THEN {None}
    ELSE {Some(r.source_basename) : r \in latest_sources(db, hash_hex)}

\* lines 237-248: all_docs, each row with the title and the basename that
\* name_resolver uses for it; every order and choice the queries allow
view_documents(db) ==
    LET hashes == {d.hash : d \in db.documents}
        row(h) == CHOOSE d \in db.documents : d.hash = h
        bases == {b \in [hashes -> UNION {view_basenames(db, h) : h \in hashes}] :
                    \A h \in hashes : b[h] \in view_basenames(db, h)}
    IN {[i \in DOMAIN order |->
            [hash |-> order[i], vault_relpath |-> row(order[i]).vault_relpath,
             category |-> row(order[i]).category, title |-> row(order[i]).title,
             basename |-> b[order[i]]]] :
          order \in iter_documents(db, FALSE), b \in bases}

\* lines 236-257: the view is rebuilt from the documents of the connection.
\* link_mode and refresh_view are arguments of the pass that nothing reads
\* before this step, so the step draws them.  fault: what the file system
\* refuses, for each document.
rebuilt(documents, link_mode, refresh_view, fault) ==
    build_categorized_view(view, documents, link_mode, refresh_view, DefaultCategory, fault)

\* One rebuild for each order and choice of names the queries allow
rebuilds(link_mode, refresh_view, fault) ==
    {rebuilt(documents, link_mode, refresh_view, fault) : documents \in view_documents(conn)}

\* What the file system can refuse for the files of this model: for each
\* digest nothing or one of the failures
LinkFaults ==
    LET hashes == {hexdigest(sha256_of(c)) : c \in Contents}
    IN {fault \in SUBSET (hashes \X Failures) :
          \A f, g \in fault : f[1] = g[1] => f = g}

\* lines 236-268: the view is rebuilt, then conn.commit()
CatCommit(link_mode, refresh_view, fault) ==
    /\ pc = "cat"
    /\ idx > Len(candidates)
    /\ view' \in {r.view : r \in {r \in rebuilds(link_mode, refresh_view, fault) : ~r.raised}}
    /\ disk' = conn
    /\ pc' = "idle"
    /\ CatEnd
    /\ UNCHANGED <<fs, vault, tmp, conn, clock, stats, outcome, returned>>
    /\ UNCHANGED <<raceVars, fnVars>>
    /\ UNCHANGED initialized

\* lines 250-257, organize.py lines 47-64 and 75-101: the view rebuild raises
\* (ValueError for a link_mode that is none of the three, OSError for a
\* category directory or a link that cannot be made, in hardlink mode when the
\* symbolic link of the fallback cannot be made either) and the finally clause
\* (catalog.py lines 269-270) closes the connection without a commit.  The
\* view keeps what the rebuild made before the error, a partly written copy
\* included.
CatViewRaises(link_mode, refresh_view, fault) ==
    /\ pc = "cat"
    /\ idx > Len(candidates)
    /\ view' \in {r.view : r \in {r \in rebuilds(link_mode, refresh_view, fault) : r.raised}}
    /\ conn' = disk
    /\ pc' = "cat_raised"
    /\ CatEnd
    /\ UNCHANGED <<fs, vault, tmp, disk, clock, stats, outcome, returned>>
    /\ UNCHANGED <<raceVars, fnVars>>
    /\ UNCHANGED initialized

\* The process is killed before conn.commit() (line 259): inside the loop,
\* after it, inside the view rebuild or when the view has been rebuilt.
\* Nothing of the pass is committed; the view is the one the pass found or
\* what the rebuild has made of it when the kill comes.
CatCrash(link_mode, refresh_view, fault) ==
    /\ pc = "cat"
    /\ \/ view' = view
       \/ /\ idx > Len(candidates)
          /\ view' \in UNION {rebuild_stages(view, documents, link_mode, refresh_view,
                                              DefaultCategory, fault) :
                                  documents \in view_documents(conn)}
    /\ conn' = disk
    /\ pc' = "idle"
    /\ CatEnd
    /\ UNCHANGED <<fs, vault, tmp, disk, clock, stats, outcome, returned>>
    /\ UNCHANGED <<raceVars, fnVars>>
    /\ UNCHANGED initialized

\* lines 93-231: the start of a pass and the loop over the documents
CatLoop(replies) ==
    \/ \E llm_provider \in {None, Some("off"), Some(" UZU ")},
          llm_mode \in {None, Some("always"), Some("Fallback")},
          llm_path_mode \in {None, Some(" Full")}, recategorize_all \in BOOLEAN :
          CatBegin(llm_provider, llm_mode, llm_path_mode, recategorize_all)
    \/ \E r \in conn.source_files \cup {None}, title \in Titles, reply \in replies :
          CatDoc(IF r = None THEN None ELSE Some(r), title, reply)
    \/ \E r \in conn.source_files \cup {None}, title \in Titles, reply \in replies :
          CatLLMRaises(IF r = None THEN None ELSE Some(r), title, reply)

\* categorize_library, step by step
CatPass ==
    \/ CatLoop(LLMReplies)
    \/ \E link_mode \in Linkers, refresh_view \in BOOLEAN, fault \in LinkFaults :
          CatCommit(link_mode, refresh_view, fault)
    \/ \E link_mode \in Linkers \cup {"move"}, refresh_view \in BOOLEAN, fault \in LinkFaults :
          CatViewRaises(link_mode, refresh_view, fault)
    \/ \E link_mode \in Linkers \cup {"move"}, refresh_view \in BOOLEAN, fault \in LinkFaults :
          CatCrash(link_mode, refresh_view, fault)

\* The library over a tree whose files are not written: the two files hold
\* the same content, or different contents
InitCat ==
    /\ fs \in {[p \in Paths |-> [kind |-> "file", content |-> <<1, 2>>, mtime |-> 0]],
               [p \in Paths |-> [kind |-> "file", mtime |-> 0,
                                 content |-> IF p = InvPdf THEN <<1, 2>> ELSE <<2>>]]}
    /\ vault = <<>>
    /\ tmp = <<>>
    /\ disk = EmptyDb
    /\ conn = EmptyDb
    /\ pc = "idle"
    /\ clock = 0
    /\ candidates = <<>>
    /\ idx = 0
    /\ stats = ZeroStats
    /\ outcome = NoOutcome
    /\ returned = <<>>
    /\ wpc = [w \in Workers |-> "off"]
    /\ wsrc = [w \in Workers |-> <<>>]
    /\ wres = [w \in Workers |-> <<>>]
    /\ opts = NoOpts
    /\ initialized = FALSE
    /\ cstats = ZeroCat
    /\ loc = NoLoc
    /\ answers = <<>>
    /\ view = {}
    /\ call = None
    /\ ret = None

\* scan_and_copy with a method that is none of the three: ValueError at line
\* 183, the first statement after the normalisation; the dry-run branch (lines
\* 191-203) and library.ensure_initialized() (line 205) come after it, so the
\* call creates nothing
ScanRejected(method) ==
    /\ Idle
    /\ ~valid_method(method)
    /\ pc' = "scan_raised"
    /\ UNCHANGED <<fs, vault, tmp, disk, conn, clock, candidates, idx, stats, outcome,
                   returned>>
    /\ UNCHANGED <<raceVars, catVars, fnVars, view>>
    /\ UNCHANGED initialized

\* categorize_library with an LLM option outside its set: ValueError at lines
\* 79-84, after library.ensure_initialized() (line 60) has created the
\* directories, categories.json and the manifest file of a library that had
\* none, and after the rule set was loaded (lines 62-73)
CatRejected(llm_provider, llm_mode, llm_path_mode) ==
    /\ Idle
    /\ ~valid_llm_options(llm_provider, llm_mode, llm_path_mode)
    /\ pc' = "cat_raised"
    /\ UNCHANGED <<fs, vault, tmp, disk, conn, clock, candidates, idx, stats, outcome,
                   returned>>
    /\ UNCHANGED <<raceVars, catVars, fnVars, view>>
    /\ initialized' = TRUE

\* Calls with an option outside its enumeration
RejectedCalls ==
    \/ \E method \in {"auto", " Walk ", "find", " Find "} : ScanRejected(method)
    \/ \E o \in {<<Some("openai"), None, None>>, <<Some(" UZU "), Some("never"), Some("tail")>>,
                  <<None, Some("Always"), Some("none")>>, <<None, None, Some(" Full")>>} :
          CatRejected(o[1], o[2], o[3])

\* Scan passes and categorization passes in any order, over a tree that is
\* left alone (stat() never fails for a file the finder yields).  The scans of
\* this specification are whole passes (no limit, no dry run) and its
\* categorization passes rebuild the view refreshed and with symbolic links;
\* a link_mode outside the three is rejected at the rebuild.
NextCat ==
    \/ CmdInit
    \/ \E listing \in Listings : ScanBegin(listing, None)
    \/ ScanSteps
    \/ CatLoop(LLMReplies)
    \/ CatCommit("symlink", TRUE, {})
    \/ CatViewRaises("move", TRUE, {})
    \/ CatCrash("symlink", TRUE, {})
    \/ RejectedCalls

-----------------------------------------------------------------------------
(* Two workers inside _copy_into_vault at once (scanner.py lines 147-166) *)

InitRace ==
    /\ fs = [p \in Paths |-> [kind |-> "file", content |-> <<1, 2>>, mtime |-> 0]]
    /\ vault = <<>>
    /\ tmp = <<>>
    /\ disk = EmptyDb
    /\ conn = EmptyDb
    /\ pc = "idle"
    /\ clock = 0
    /\ candidates = <<>>
    /\ idx = 0
    /\ stats = ZeroStats
    /\ outcome = NoOutcome
    /\ returned = <<>>
    /\ wpc = [w \in Workers |-> "copy"]
    /\ wsrc \in [Workers -> Contents]
    /\ wres = [w \in Workers |-> <<>>]
    /\ opts = NoOpts
    /\ initialized = FALSE
    /\ cstats = ZeroCat
    /\ loc = NoLoc
    /\ answers = <<>>
    /\ view = {}
    /\ call = None
    /\ ret = None

\* line 152: copy_to_temp_and_hash(src, library.tmp_dir)
RaceCopy(w, fault) ==
    /\ wpc[w] = "copy"
    /\ fault \in Faults(wsrc[w]) \ {<<"rename">>}
    /\ LET result == copy_to_temp_and_hash(wsrc[w], tmp, fault)
       IN /\ tmp' = result.tmp
          /\ wres' = [wres EXCEPT ![w] = [sha256_hex |-> result.sha256_hex,
                                          tmp_path |-> result.tmp_path,
                                          was_copied |-> FALSE]]
          /\ wpc' = [wpc EXCEPT ![w] = IF result.raised THEN "failed" ELSE "check"]
    /\ UNCHANGED <<vault, wsrc>>
    /\ UNCHANGED <<fs, disk, conn, pc, clock, candidates, idx, stats, outcome, returned>>
    /\ UNCHANGED <<catVars, fnVars, view>>
    /\ UNCHANGED initialized

\* lines 153-157: the existence check, and the dedup hit when the blob is there
RaceCheck(w) ==
    /\ wpc[w] = "check"
    /\ IF exists(vault, vault_path_for_hash(wres[w].sha256_hex))
       THEN /\ tmp' = unlink(tmp, wres[w].tmp_path)
            /\ wpc' = [wpc EXCEPT ![w] = "done"]
       ELSE /\ tmp' = tmp
            /\ wpc' = [wpc EXCEPT ![w] = "rename"]
    /\ UNCHANGED <<vault, wsrc, wres>>
    /\ UNCHANGED <<fs, disk, conn, pc, clock, candidates, idx, stats, outcome, returned>>
    /\ UNCHANGED <<catVars, fnVars, view>>
    /\ UNCHANGED initialized

\* lines 159-166: mkdir, rename into place, return was_copied = True
RaceRename(w, fault) ==
    /\ wpc[w] = "rename"
    /\ IF fault = <<"rename">>
       THEN /\ wpc' = [wpc EXCEPT ![w] = "failed"]
            /\ UNCHANGED <<vault, tmp, wres>>
       ELSE LET r == replace(vault, tmp, wres[w].tmp_path,
                             vault_path_for_hash(wres[w].sha256_hex))
            IN /\ vault' = r.vault
               /\ tmp' = r.tmp
               /\ wres' = [wres EXCEPT ![w].was_copied = TRUE]
               /\ wpc' = [wpc EXCEPT ![w] = "done"]
    /\ UNCHANGED wsrc
    /\ UNCHANGED <<fs, disk, conn, pc, clock, candidates, idx, stats, outcome, returned>>
    /\ UNCHANGED <<catVars, fnVars, view>>
    /\ UNCHANGED initialized

NextRace ==
    \/ \E w \in Workers, fault \in UNION {Faults(c) : c \in Contents} : RaceCopy(w, fault)
    \/ \E w \in Workers : RaceCheck(w)
    \/ \E w \in Workers, fault \in {<<"none">>, <<"rename">>} : RaceRename(w, fault)

-----------------------------------------------------------------------------
(* llm.py: the functions of the classifier, each called on its own *)

TextCategories == {None, Str("Invoices"), Str("invoices"), Str("INVOICES"), Str("Receipts"),
                   Str("Taxes"), Num(7), Str("Manuals & Guides"), Str("Children's Books")}
TextConfidences == {None, Num(90), Num(80), Num(30), Num(150), Num(-50), Str("high")}
TextReasons == {None, Str("looks like an invoice")}

\* What a provider may write: a form and the fields it holds; a blank text
\* holds no field
Descriptions ==
    {[form |-> form, category |-> category, confidence |-> confidence, reason |-> reason] :
        form \in Forms \ {"empty", "whitespace"}, category \in TextCategories,
        confidence \in TextConfidences, reason \in TextReasons}
    \cup {[form |-> form, category |-> None, confidence |-> None, reason |-> None] :
             form \in {"empty", "whitespace"}}

\* The text of every description, computed once
Rendered == [d \in Descriptions |-> render(d)]

\* The texts a provider may answer with
Texts == {Rendered[d] : d \in Descriptions}

Replies ==
    {Failure(transport) : transport \in Transports \ {"ok"}}
    \cup {[transport |-> "ok", shape |-> shape, text |-> text] :
             shape \in Shapes, text \in Texts}

MaxTailParts == 6   \* the greatest path_tail_parts of a call

PromptPaths == {None, Some(""), Some("/home/u/Invoices/inv.pdf"), Some("/home/u/inv.pdf"),
                Some("/srv/docs/a.pdf")}

PathCalls ==
    {[fn |-> "format_source_path", path_str |-> path_str, mode |-> mode,
      tail_parts |-> tail_parts] :
        path_str \in PromptPaths, mode \in {"basename", "tail", "full"},
        tail_parts \in -1..MaxTailParts}

LLMCalls ==
    {[fn |-> "extract", text |-> text] : text \in Texts}
    \cup {[fn |-> "classify", reply |-> reply] : reply \in Replies}
    \cup PathCalls

\* No pass has run and none runs
NoLibrary ==
    /\ fs = [p \in Paths |-> [kind |-> "file", content |-> <<1, 2>>, mtime |-> 0]]
    /\ vault = <<>>
    /\ tmp = <<>>
    /\ disk = EmptyDb
    /\ conn = EmptyDb
    /\ pc = "idle"
    /\ clock = 0
    /\ candidates = <<>>
    /\ idx = 0
    /\ stats = ZeroStats
    /\ outcome = NoOutcome
    /\ returned = <<>>
    /\ wpc = [w \in Workers |-> "off"]
    /\ wsrc = [w \in Workers |-> <<>>]
    /\ wres = [w \in Workers |-> <<>>]
    /\ opts = NoOpts
    /\ initialized = FALSE
    /\ cstats = ZeroCat
    /\ loc = NoLoc
    /\ answers = <<>>
    /\ view = {}

InitLLM ==
    /\ NoLibrary
    /\ call \in LLMCalls
    /\ ret = None

\* _extract_json_object(text)
CallExtract ==
    /\ call.fn = "extract"
    /\ ret = None
    /\ ret' = extract_json_object(call.text)
    /\ UNCHANGED <<scanVars, raceVars, catVars, view, call>>
    /\ UNCHANGED initialized

\* llm_classify_category(...), the provider answering with call.reply
CallClassify ==
    /\ call.fn = "classify"
    /\ ret = None
    /\ ret' = llm_classify_category(call.reply)
    /\ UNCHANGED <<scanVars, raceVars, catVars, view, call>>
    /\ UNCHANGED initialized

\* _format_source_path(path_str, mode=..., tail_parts=...)
CallFormatPath ==
    /\ call.fn = "format_source_path"
    /\ ret = None
    /\ ret' = Returned(format_source_path(call.path_str, call.mode, call.tail_parts))
    /\ UNCHANGED <<scanVars, raceVars, catVars, view, call>>
    /\ UNCHANGED initialized

NextLLM == CallExtract \/ CallClassify \/ CallFormatPath

-----------------------------------------------------------------------------
(* categorizer.py: the rule scorer called on its own *)

\* Rules to build rule sets from: the two of this library, one with a text
\* keyword and page bounds, one without keywords, one with two path keywords,
\* one with a large priority
RulePool == {
    Rules[1], Rules[2],
    [name |-> "Statements", priority |-> 5, min_pages |-> Some(2), max_pages |-> Some(10),
     path_keywords_any |-> <<>>, filename_keywords_any |-> <<>>,
     metadata_keywords_any |-> <<>>, text_keywords_any |-> <<"total">>],
    [name |-> "Misc", priority |-> 3, min_pages |-> None, max_pages |-> None,
     path_keywords_any |-> <<>>, filename_keywords_any |-> <<>>,
     metadata_keywords_any |-> <<>>, text_keywords_any |-> <<>>],
    [name |-> "Bills", priority |-> 0, min_pages |-> None, max_pages |-> None,
     path_keywords_any |-> <<"invoices", "invoice">>, filename_keywords_any |-> <<>>,
     metadata_keywords_any |-> <<>>, text_keywords_any |-> <<>>],
    [name |-> "Archive", priority |-> 300000, min_pages |-> None, max_pages |-> None,
     path_keywords_any |-> <<"invoices">>, filename_keywords_any |-> <<>>,
     metadata_keywords_any |-> <<>>, text_keywords_any |-> <<>>] }

RuleSets ==
    {<<>>} \cup {<<a>> : a \in RulePool}
    \cup {rules \in RulePool \X RulePool : rules[1] # rules[2]}

\* min_score of the config, as written there
MinScores == {0, MinScoreCfg}

Cfgs ==
    {[default_category |-> DefaultCategory, min_score |-> m * Micro, categories |-> rules] :
        m \in MinScores, rules \in RuleSets}

\* The documents the scorer is given: where the blob was last seen, its title,
\* its text sample, its page count
ScorerDocs ==
    {[source_path |-> Some(path), source_basename |-> Some(Basename(path)),
      title |-> title, text_sample |-> text, page_count |-> pages] :
        path \in Paths \cup {"/home/u/Misc/scan.pdf"},
        title \in Titles, text \in {None, Some("Total due")},
        pages \in {None, Some(1), Some(4)}}

ScorerCalls == {[fn |-> "categorize", cfg |-> cfg, doc |-> doc] : cfg \in Cfgs, doc \in ScorerDocs}

InitScorer ==
    /\ NoLibrary
    /\ call \in ScorerCalls
    /\ ret = None

\* categorize(cfg=..., source_path=..., ...)
CallCategorize ==
    /\ call.fn = "categorize"
    /\ ret = None
    /\ ret' = categorize(call.cfg, call.doc.source_path, call.doc.source_basename,
                         call.doc.title, call.doc.text_sample, call.doc.page_count)
    /\ UNCHANGED <<scanVars, raceVars, catVars, view, call>>
    /\ UNCHANGED initialized

NextScorer == CallCategorize

(* organize.py: the view builder called on its own, several times in a row   *)
(* with the same arguments                                                   *)

MaxRebuilds == 2   \* rebuilds in one behaviour

\* Rows of the documents table with the title and the basename name_resolver
\* finds for them.  The first two share their display name and their digest
\* prefix.
ViewDocs == {
    [hash |-> <<1, 1, 1, 1>>, category |-> Some("Invoices"),
     title |-> Some("Invoice 2025"), basename |-> Some("inv.pdf")],
    [hash |-> <<1, 1, 1, 2>>, category |-> Some("Invoices"),
     title |-> Some("Invoice 2025"), basename |-> Some("copy.pdf")],
    [hash |-> <<2, 0, 0, 1>>, category |-> None,
     title |-> None, basename |-> Some("scan.pdf")],
    [hash |-> <<3, 0, 0, 1>>, category |-> Some("  "),
     title |-> Some("  "), basename |-> None],
    [hash |-> <<4, 0, 0, 1>>, category |-> Some("Receipts & Invoices"),
     title |-> None, basename |-> Some("SCAN.PDF")],
    [hash |-> <<5, 0, 0, 1>>, category |-> Some("_total_links"),
     title |-> None, basename |-> Some("scan.pdf")] }

ViewDoc(d) == [hash |-> d.hash, vault_relpath |-> vault_path_for_hash(d.hash),
               category |-> d.category, title |-> d.title, basename |-> d.basename]

\* all_docs: up to three rows, no hash twice (hash is the primary key)
DocLists ==
    {<<>>} \cup {<<ViewDoc(a)>> : a \in ViewDocs}
    \cup {<<ViewDoc(ds[1]), ViewDoc(ds[2])>> :
            ds \in {x \in ViewDocs \X ViewDocs : x[1] # x[2]}}
    \cup {<<ViewDoc(ds[1]), ViewDoc(ds[2]), ViewDoc(ds[3])>> :
            ds \in {x \in ViewDocs \X ViewDocs \X ViewDocs :
                      x[1] # x[2] /\ x[1] # x[3] /\ x[2] # x[3]}}

\* What an earlier run left under the view root
StaleViews == {{}, {[dir |-> "Old", stem |-> Str("gone"), prefix |-> <<9, 9>>, n |-> 1,
                     kind |-> "symlink",
                     target |-> <<"..", "..">> \o vault_path_for_hash(<<9, 9, 9, 9>>)]}}

\* The failures a link mode can meet
FailuresOf(link_mode) ==
    CASE link_mode = "symlink" -> {"mkdir", "link"}
      [] link_mode = "hardlink" -> {"mkdir", "link", "both"}
      [] link_mode = "copy" -> {"mkdir", "link", "partial", "attrs"}
      [] OTHER -> {}

\* What the file system refuses in a call: nothing, one failure for the
\* first, second or third document, the link of every document, or the link
\* of every document and the fallback of the last
FaultSets(documents, link_mode) ==
    {{}} \cup {{<<documents[i].hash, what>>} :
                  i \in DOMAIN documents, what \in FailuresOf(link_mode)}
    \cup (IF link_mode \in Linkers
          THEN {{<<documents[i].hash, "link">> : i \in DOMAIN documents}}
          ELSE {})
    \cup (IF link_mode = "hardlink"
          THEN {{<<documents[i].hash, IF i = Len(documents) THEN "both" ELSE "link">> :
                    i \in DOMAIN documents}}
          ELSE {})

ViewCalls ==
    UNION {{[fn |-> "rebuild", documents |-> documents, link_mode |-> link_mode,
             refresh |-> refresh, default_category |-> DefaultCategory, fault |-> fault] :
               refresh \in BOOLEAN, fault \in FaultSets(documents, link_mode)} :
             documents \in DocLists, link_mode \in Linkers \cup {"move"}}

InitView ==
    /\ fs = [p \in Paths |-> [kind |-> "file", content |-> <<1, 2>>, mtime |-> 0]]
    /\ vault = <<>>
    /\ tmp = <<>>
    /\ disk = EmptyDb
    /\ conn = EmptyDb
    /\ pc = "idle"
    /\ clock = 0
    /\ candidates = <<>>
    /\ idx = 0
    /\ stats = ZeroStats
    /\ outcome = NoOutcome
    /\ returned = <<>>
    /\ wpc = [w \in Workers |-> "off"]
    /\ wsrc = [w \in Workers |-> <<>>]
    /\ wres = [w \in Workers |-> <<>>]
    /\ opts = NoOpts
    /\ initialized = FALSE
    /\ cstats = ZeroCat
    /\ loc = NoLoc
    /\ answers = <<>>
    /\ view \in StaleViews
    /\ call \in ViewCalls
    /\ ret = <<>>

\* build_categorized_view(...): ret collects what each call returned or raised
CallRebuild ==
    /\ call.fn = "rebuild"
    /\ Len(ret) < MaxRebuilds
    /\ LET r == build_categorized_view(view, call.documents, call.link_mode, call.refresh,
                                       call.default_category, call.fault)
       IN /\ view' = r.view
          /\ ret' = Append(ret, [raised |-> r.raised, exc |-> r.exc,
                                 by_category |-> r.by_category])
    /\ UNCHANGED <<scanVars, raceVars, catVars, call>>
    /\ UNCHANGED initialized

NextView == CallRebuild

-----------------------------------------------------------------------------
(* catalog.py: categorization passes over a library that earlier passes left *)
(* partly categorized.  The earlier passes ran at the times -1, 0 and 1:     *)
(* a scan that ingested inv.pdf and failed to copy copy.pdf, a               *)
(* categorization with the provider off, and a scan that ingested copy.pdf.  *)

\* The source_files row an earlier scan wrote at seen_at
EarlierRow(src, hash_hex, status, error, seen_at) ==
    [source_path |-> src, source_basename |-> Basename(src),
     source_size |-> Some(Len(Contents_of(src))), source_mtime |-> Some(0),
     hash |-> hash_hex, first_seen_at |-> seen_at, last_seen_at |-> seen_at,
     status |-> status, error |-> error]

\* The first scan: inv.pdf is ingested, the copy of copy.pdf fails
EarlierScan1(c1) ==
    upsert_source(
        upsert_source(
            upsert_document_seen(EmptyDb, c1.hash_hex, c1.vault_path, c1.bytes_written,
                                 -1, -1),
            EarlierRow(InvPdf, Some(c1.hash_hex), "ok", None, -1)),
        EarlierRow(CopyPdf, None, "error", Some("copy failed"), -1))

\* The categorization of inv.pdf by the rules alone
EarlierCat(db, hash_hex, rules) ==
    update_document_category(
        update_document_metadata(db, hash_hex, Some("Invoice 2025")),
        hash_hex, rules.category, rules.score, rules.reason, 0)

\* The second scan: inv.pdf is unchanged, copy.pdf is ingested
EarlierScan2(db, c2) ==
    upsert_source(
        upsert_document_seen(touch_source_seen(db, InvPdf, 1), c2.hash_hex,
                             c2.vault_path, c2.bytes_written, 1, 1),
        EarlierRow(CopyPdf, Some(c2.hash_hex), "ok", None, 1))

InitRecat ==
    \E c1 \in {copy_into_vault(Contents_of(InvPdf), <<>>, <<>>, <<"none">>)} :
    \E rules \in {categorize(Cfg, Some(InvPdf), Some(Basename(InvPdf)),
                             Some("Invoice 2025"), None, None)} :
    \E cat \in {EarlierCat(EarlierScan1(c1), c1.hash_hex, rules)} :
    \E documents \in view_documents(cat) :
    \E c2 \in {copy_into_vault(Contents_of(CopyPdf), c1.vault, c1.tmp, <<"none">>)} :
    \E scan2 \in {EarlierScan2(cat, c2)} :
       /\ fs = [p \in Paths |-> [kind |-> "file", mtime |-> 0, content |-> Contents_of(p)]]
       /\ vault = c2.vault
       /\ tmp = c2.tmp
       /\ disk = scan2
       /\ conn = scan2
       /\ pc = "idle"
       /\ clock = 1
       /\ candidates = <<>>
       /\ idx = 0
       /\ stats = ZeroStats
       /\ outcome = NoOutcome
       /\ returned = <<>>
       /\ wpc = [w \in Workers |-> "off"]
       /\ wsrc = [w \in Workers |-> <<>>]
       /\ wres = [w \in Workers |-> <<>>]
       /\ opts = NoOpts
       /\ initialized = TRUE
       /\ cstats = ZeroCat
       /\ loc = NoLoc
       /\ answers = <<>>
       /\ view = build_categorized_view({}, documents, "symlink", TRUE, DefaultCategory,
                                        {}).view
       /\ call = None
       /\ ret = None

\* What the file system refuses in these passes: for one file, one of the
\* failures the link mode can meet
RecatFaults(link_mode) ==
    {fault \in LinkFaults :
        /\ Cardinality(fault) = 1
        /\ \A f \in fault : f[2] \in FailuresOf(link_mode)}

\* What the provider call comes back with in these passes: no connection
\* (caught), a read timeout (not caught), a configured category with high and
\* with low confidence
RecatReplies == {
    Failure("unreachable"), Failure("read_timeout"),
    Answer("message", "json", Str("Receipts"), Num(90), None),
    Answer("message", "json", Str("Receipts"), Num(30), None) }

\* What a hard-link rebuild gets over: nothing refused, or the hard link of
\* one file (a symbolic link takes its place, organize.py lines 94-99)
RecatFallbacks ==
    {{}} \cup {fault \in RecatFaults("hardlink") : \A f \in fault : f[2] = "link"}

\* Categorization passes that rebuild the view with hard links on top of what
\* is there, or refreshed and with copies; the file system may refuse a
\* category directory, a copy, or a hard link and the symbolic link in its
\* place, and the process may be killed in either kind of pass
NextRecat ==
    \/ CatLoop(RecatReplies)
    \/ \E fault \in RecatFallbacks : CatCommit("hardlink", FALSE, fault)
    \/ CatCommit("copy", TRUE, {})
    \/ CatViewRaises("move", FALSE, {})
    \/ \E fault \in RecatFaults("copy") : CatViewRaises("copy", TRUE, fault)
    \/ \E fault \in RecatFaults("hardlink") : CatViewRaises("hardlink", FALSE, fault)
    \/ \E fault \in RecatFallbacks : CatCrash("hardlink", FALSE, fault)
    \/ CatCrash("copy", TRUE, {})

-----------------------------------------------------------------------------
vars == <<scanVars, raceVars, catVars, fnVars, view, initialized>>

Next == NextScan

Spec == Init /\ [][Next]_vars

SpecCat == InitCat /\ [][NextCat]_vars

SpecRace == InitRace /\ [][NextRace]_vars

SpecLLM == InitLLM /\ [][NextLLM]_vars

SpecScorer == InitScorer /\ [][NextScorer]_vars

SpecView == InitView /\ [][NextView]_vars

SpecRecat == InitRecat /\ [][NextRecat]_vars

-----------------------------------------------------------------------------
(* Properties *)

Ingested == {"copied", "deduped", "skipped"}
Failed == {"unreadable", "error"}

DigestOf(content) == hexdigest(sha256_of(content))

\* No two documents rows share a digest, and the digest of every ok source
\* row is the digest of a documents row
OneRowPerDigest(db) ==
    /\ \A d1, d2 \in db.documents : d1.hash = d2.hash => d1 = d2
    /\ \A r \in db.source_files :
          r.status = "ok" => \E d \in db.documents : Some(d.hash) = r.hash

\* C1: no two documents rows ever share a digest and every ok source row
\* refers to one; at the end of a scan pass, two distinct paths whose files
\* hold the same bytes and were both taken in (now or by an earlier pass) have
\* exactly one documents row and two source rows, both ok and both carrying
\* that row's digest.
C1_OneDocumentPerContent ==
    /\ OneRowPerDigest(conn)
    /\ OneRowPerDigest(disk)
    /\ AtCommit =>
         \A p, q \in Paths :
            ( /\ p # q
              /\ outcome[p] \in Ingested
              /\ outcome[q] \in Ingested
              /\ fs[p].content = fs[q].content )
            => /\ Cardinality({d \in conn.documents : d.hash = DigestOf(fs[p].content)}) = 1
               /\ Cardinality({r \in conn.source_files : r.source_path \in {p, q}}) = 2
               /\ \A r \in conn.source_files :
                     r.source_path \in {p, q}
                     => r.status = "ok" /\ r.hash = Some(DigestOf(fs[p].content))

C1_Witness ==
    /\ AtCommit
    /\ fs[InvPdf].content = fs[CopyPdf].content
    /\ outcome[InvPdf] = "copied"
    /\ outcome[CopyPdf] = "deduped"

\* The step of the running scan pass that handles path p
Handles(p) == InLoop /\ candidates[idx] = p /\ idx' = idx + 1

\* The path has a source row whose size and mtime are the ones observed now
ReObserved(p) ==
    /\ fs[p].kind = "file"
    /\ HasSource(conn, p)
    /\ get_source(conn, p).source_size = Some(st_size(p))
    /\ get_source(conn, p).source_mtime = Some(st_mtime(p))

\* Nothing changes but the last_seen_at of p's source row: no blob, no scratch
\* file, no documents row, no other source row or column, no copy counted
OnlyLastSeen(p) ==
    /\ vault' = vault
    /\ tmp' = tmp
    /\ disk' = disk
    /\ conn'.documents = conn.documents
    /\ conn'.source_files =
          (conn.source_files \ {get_source(conn, p)})
             \cup {[get_source(conn, p) EXCEPT !.last_seen_at = clock]}
    /\ stats'.copied_new = stats.copied_new
    /\ stats'.deduped_existing = stats.deduped_existing
    /\ stats'.errors = stats.errors
    /\ outcome'[p] = "skipped"

\* C2 as stated: re-observing the recorded size and mtime changes only
\* last_seen_at, whatever the status of the recorded row.
C2_AnyStatusOnlyLastSeen ==
    [][\A p \in Paths : (Handles(p) /\ ReObserved(p)) => OnlyLastSeen(p)]_vars

\* C2, amended: re-observing the recorded size and mtime of a path whose source
\* row has status ok changes only that row's last_seen_at.
C2_OkRowOnlyLastSeen ==
    [][\A p \in Paths :
          (Handles(p) /\ ReObserved(p) /\ get_source(conn, p).status = "ok")
          => OnlyLastSeen(p)]_vars

C2_Witness ==
    /\ pc = "scan"
    /\ \E p \in Paths :
          /\ outcome[p] = "skipped"
          /\ get_source(conn, p).last_seen_at = clock
          /\ get_source(conn, p).first_seen_at < clock
          /\ get_source(disk, p).last_seen_at < clock

\* A returned call that was a pass over every file of the tree
WholePass(r) ==
    /\ ~r.dry_run
    /\ r.stats.discovered = Cardinality({p \in Paths : fs[p].kind = "file"})

\* The stats of the whole passes since the tree last changed
WholePasses ==
    LET whole == SelectSeq(returned, WholePass)
    IN [i \in DOMAIN whole |-> whole[i].stats]

RerunsReportNothingNew ==
    \A i \in 2..Len(WholePasses) :
       /\ WholePasses[i].copied_new = 0
       /\ WholePasses[i].deduped_existing = 0
       /\ i >= 3 => WholePasses[i].skipped_unchanged = WholePasses[i - 1].skipped_unchanged

\* C3 as stated: after a first pass over every file of a tree, every further
\* such pass over the unchanged tree reports copied_new = 0 and
\* deduped_existing = 0 and the skipped_unchanged of the re-run before it.
C3_EveryRerunReportsNothingNew == RerunsReportNothingNew

\* C3, amended: the same, when the first pass over every file of the tree
\* reported errors = 0.
C3_RerunAfterCleanPass ==
    (WholePasses # <<>> /\ WholePasses[1].errors = 0) => RerunsReportNothingNew

C3_Witness ==
    /\ Len(WholePasses) >= 3
    /\ WholePasses[1].errors = 0
    /\ WholePasses[1].copied_new = 1
    /\ WholePasses[3].skipped_unchanged = Cardinality(Paths)

\* C4: when the workers that ingest one content not yet in the store are all
\* done, exactly one of them reports was_copied = TRUE and the canonical
\* location holds the whole content.
C4_ExactlyOneNewCopy ==
    \A c \in Contents :
       LET ws == {w \in Workers : wsrc[w] = c}
       IN (Cardinality(ws) >= 2 /\ \A w \in ws : wpc[w] = "done")
          => /\ Cardinality({w \in ws : wres[w].was_copied}) = 1
             /\ vault[vault_path_for_hash(DigestOf(c))] = c

\* C5: every blob at a canonical location is the whole content of a file, and
\* the location is the one its digest names.
C5_CanonicalBlobsComplete ==
    \A path \in DOMAIN vault :
       /\ vault[path] \in Contents
       /\ path = vault_path_for_hash(DigestOf(vault[path]))

C5_Witness ==
    /\ vault # <<>>
    /\ \E n \in DOMAIN tmp : tmp[n] \notin Contents

\* C6: every source row with status ok has a digest, in the connection's view
\* and in the committed Manifest.
C6_OkHasDigest ==
    \A r \in conn.source_files \cup disk.source_files : r.status = "ok" => r.hash # None

C6_Witness ==
    /\ \E r \in disk.source_files :
          r.status \in Failed /\ r.hash = None /\ r.first_seen_at < r.last_seen_at
    /\ \E r \in disk.source_files : r.status = "ok"

InPass == pc \in {"scan", "cat"}

\* The step is the conn.commit() that ends a pass: the pass returns and the
\* connection keeps what it wrote (a killed pass loses it)
Commits == InPass /\ idx > Len(candidates) /\ pc' = "idle" /\ conn' = conn

\* C7: no step of a scan or categorization pass changes the committed Manifest
\* but the commit that ends it, which commits all the pass has written; so a
\* pass that stops earlier leaves the committed Manifest as it was before it.
C7_CommitAllOrNothing ==
    [][InPass => IF Commits THEN disk' = conn ELSE disk' = disk]_vars

\* A categorization pass over two documents stopped on a provider error that
\* is not caught (a read timeout) and committed nothing: the documents of the
\* committed Manifest are without a category
C7_Witness ==
    /\ pc = "cat_raised"
    /\ loc # NoLoc
    /\ loc.llm_result.exc = "TimeoutError"
    /\ Cardinality(disk.documents) = 2
    /\ \A d \in disk.documents : d.category = None

\* C8: a file whose stat() or ingest fails gets a source row with status
\* unreadable or error, an error message and no digest, is counted in errors,
\* and the pass goes on: no such failure propagates, every file before the
\* position of the pass was handled, and a committed pass handled every file
\* its finder yielded.
C8_FileErrorsDoNotStopThePass ==
    /\ pc # "scan_raised"
    /\ pc = "scan" =>
          /\ stats.discovered = idx - 1
          /\ stats.errors = Cardinality({p \in Paths : outcome[p] \in Failed})
          /\ \A i \in 1..(idx - 1) : outcome[candidates[i]] # "none"
          /\ \A p \in Paths :
                outcome[p] \in Failed
                => /\ HasSource(conn, p)
                   /\ get_source(conn, p).status = outcome[p]
                   /\ get_source(conn, p).error # None
                   /\ get_source(conn, p).hash = None
                   /\ get_source(conn, p).last_seen_at = clock
    /\ \A i \in DOMAIN returned :
          LET r == returned[i].stats
          IN ~returned[i].dry_run
             => r.discovered = r.skipped_unchanged + r.copied_new + r.deduped_existing
                               + r.errors

C8_Witness ==
    /\ AtCommit
    /\ outcome[InvPdf] = "error"
    /\ outcome[CopyPdf] = "copied"

\* The step of the running categorization pass that handles one document
CatStep == pc = "cat" /\ pc' = "cat" /\ idx' = idx + 1

DocRow(db, hash_hex) == CHOOSE d \in db.documents : d.hash = hash_hex

Confident(r) == r.category # DefaultCategory /\ r.score >= min_score

Stored(row, category, score, reason) ==
    /\ row.category = Some(category)
    /\ row.category_score = Some(score)
    /\ row.category_reason = Some(reason)

\* C9: under the fallback policy with the provider on, a document whose rule
\* result is a non-default category with a score of at least min_score makes
\* no provider call and is stored with the rule result; a document whose rule
\* result is the default category makes exactly one call.
C9_FallbackGating ==
    [][(CatStep /\ opts.llm_provider # "off" /\ opts.llm_mode = "fallback")
       => /\ Confident(loc'.cat_rules)
             => /\ ~loc'.called
                /\ cstats'.llm_calls = cstats.llm_calls
                /\ Stored(DocRow(conn', loc'.hash), loc'.cat_rules.category,
                          loc'.cat_rules.score, loc'.cat_rules.reason)
          /\ loc'.cat_rules.category = DefaultCategory
             => /\ loc'.called
                /\ cstats'.llm_calls = cstats.llm_calls + 1]_vars

C9_Witness ==
    /\ pc = "cat"
    /\ opts.llm_provider = "uzu"
    /\ opts.llm_mode = "fallback"
    /\ cstats.docs_categorized = 2
    /\ cstats.llm_calls = 1
    /\ Confident(loc.cat_rules)
    /\ ~loc.called

\* C10: when the LLM is called and answers with a confidence below the
\* minimum, the document is stored with the category and score of the rule
\* result and the rule reason followed by the low-confidence note; the call is
\* counted in llm_calls and not in llm_used (nor in llm_failed).
C10_LowConfidenceKeepsRules ==
    [][(CatStep /\ loc'.called /\ ~loc'.llm_result.raised
          /\ loc'.llm_result.confidence < MinConfidence)
       => /\ Stored(DocRow(conn', loc'.hash), loc'.cat_rules.category,
                    loc'.cat_rules.score,
                    loc'.cat_rules.reason
                       \o <<<<"| llm:uzu low_conf", loc'.llm_result.confidence>>>>)
          /\ cstats'.llm_calls = cstats.llm_calls + 1
          /\ cstats'.llm_used = cstats.llm_used
          /\ cstats'.llm_failed = cstats.llm_failed]_vars

C10_Witness ==
    /\ pc = "cat"
    /\ loc # NoLoc
    /\ loc.called
    /\ ~loc.llm_result.raised
    /\ loc.llm_result.confidence < MinConfidence
    /\ loc.llm_result.category = "Receipts"
    /\ loc.cat_rules.category = "Invoices"
    /\ DocRow(conn, loc.hash).category = Some("Invoices")

\* The step of the categorization pass in which the provider call made for a
\* document fails
LLMCallFails ==
    /\ pc = "cat"
    /\ idx <= Len(candidates)
    /\ loc' # NoLoc
    /\ loc'.called
    /\ loc'.llm_result.raised

\* C11: a provider failure during the LLM call (unreachable, non-2xx, timeout
\* while connecting or while reading the response) never aborts the batch: the
\* step counts it in llm_failed, stores the document with the category and
\* score of the rule result and the rule reason followed by the error, and the
\* pass goes on to the next document.
C11_ProviderFailureNeverAborts ==
    [][LLMCallFails
       => /\ pc' = "cat"
          /\ idx' = idx + 1
          /\ cstats'.llm_failed = cstats.llm_failed + 1
          /\ Stored(DocRow(conn', loc'.hash), loc'.cat_rules.category,
                    loc'.cat_rules.score,
                    loc'.cat_rules.reason
                       \o <<<<"| llm_error", loc'.llm_result.reason>>>>)]_vars

\* C12: the extractor returns a mapping and raises nothing for every text,
\* empty and whitespace-only texts included; and a response that carries a text
\* is never surfaced as a failure of the classification.
C12_ExtractNeverRaises ==
    /\ (call # None /\ call.fn = "extract" /\ ret # None) => ret.exc = "none"
    /\ (call # None /\ call.fn = "classify" /\ ret # None
          /\ call.reply.transport = "ok"
          /\ call.reply.shape \in {"message", "text", "output_text"})
       => ~ret.raised

\* The category the extractor recovers from the text
ExtractedCategory(text) == extract_json_object(text).value.category

\* A string that, normalized, is the normalized form of no allowed name
Unmatched(category) ==
    /\ category # None
    /\ category[1] = "str"
    /\ \A c \in Allowed : normalized[c] # normalize_category_name(category[2])

\* C13: when the category extracted from the provider's text is no string, or
\* is a string that matches no allowed name after normalization, the
\* classification is the default category with confidence 0 and the reason
\* "missing/invalid category; defaulted", whatever confidence and reason the
\* provider gave.
C13_InvalidCategoryDefaults ==
    (call # None /\ call.fn = "classify" /\ ret # None /\ ~ret.raised
       /\ \/ ExtractedCategory(call.reply.text) = None
          \/ ExtractedCategory(call.reply.text)[1] # "str"
          \/ Unmatched(ExtractedCategory(call.reply.text)))
    => ret = Classification(DefaultCategory, 0, "missing/invalid category; defaulted")

\* The keywords of a rule that hit the document, channel by channel
Hits(cat, doc) ==
    [path |-> any_kw(lower(doc.source_path), cat.path_keywords_any),
     file |-> any_kw(lower(doc.source_basename), cat.filename_keywords_any),
     meta |-> any_kw(lower(doc.title), cat.metadata_keywords_any),
     text |-> any_kw(lower(doc.text_sample), cat.text_keywords_any)]

\* The score of one rule on a document
RuleScore(cat, doc) ==
    Channel(Hits(cat, doc).path, PathBase) + Channel(Hits(cat, doc).file, FileBase)
    + Channel(Hits(cat, doc).meta, MetaBase) + Channel(Hits(cat, doc).text, TextBase)
    + cat.priority

\* The rules of the set that the page count of the document does not exclude
Considered(cfg, doc) ==
    {i \in DOMAIN cfg.categories : ~PageSkipped(cfg.categories[i], doc.page_count)}

\* The best rule score: the greatest score of a considered rule, 0 at least
BestScore(cfg, doc) ==
    CHOOSE m \in {0} \cup {RuleScore(cfg.categories[i], doc) : i \in Considered(cfg, doc)} :
       \A i \in Considered(cfg, doc) : RuleScore(cfg.categories[i], doc) <= m

\* C14: when the best rule score is below min_score the scorer returns the
\* default category with the reason "below min_score; defaulted" and the best
\* score itself.
C14_BelowMinScoreDefaults ==
    (call # None /\ call.fn = "categorize" /\ ret # None
       /\ BestScore(call.cfg, call.doc) < call.cfg.min_score)
    => ret = [category |-> call.cfg.default_category,
              score |-> BestScore(call.cfg, call.doc),
              reason |-> <<"below min_score; defaulted">>]

\* min_score = 4 and a document whose only signal is one path-keyword hit
C14_Witness ==
    /\ call # None
    /\ call.fn = "categorize"
    /\ ret # None
    /\ call.cfg.min_score = 4 * Micro
    /\ call.cfg.categories = <<Rules[1]>>
    /\ Hits(Rules[1], call.doc) =
          [path |-> <<"invoices">>, file |-> <<>>, meta |-> <<>>, text |-> <<>>]
    /\ ret.score = 2 * Micro
    /\ ret.category = DefaultCategory

\* No considered rule has a keyword hit in any channel
NoRuleContributes(cfg, doc) ==
    \A i \in Considered(cfg, doc) :
       Hits(cfg.categories[i], doc) =
          [path |-> <<>>, file |-> <<>>, meta |-> <<>>, text |-> <<>>]

\* C15: when no rule has a keyword hit in any channel (or every rule is
\* skipped by its page bounds), the scorer returns the default category with
\* the reason "no rules matched" and score 0, whatever the priorities of the
\* rules and whatever min_score.
C15_NoHitNoRulesMatched ==
    (call # None /\ call.fn = "categorize" /\ ret # None
       /\ NoRuleContributes(call.cfg, call.doc))
    => ret = [category |-> call.cfg.default_category, score |-> 0,
              reason |-> <<"no rules matched">>]

-----------------------------------------------------------------------------
(* The categorized view *)

LastRet == ret[Len(ret)]

\* C16: two consecutive view rebuilds from the same Manifest state and the same
\* document order produce identical view contents: whenever a rebuild that
\* follows a completed rebuild with the same arguments completes, the view holds
\* the same directories, entry names and link targets as before it.
C16_RebuildTwiceSameView ==
    [][(/\ call.fn = "rebuild"
        /\ ret # <<>> /\ ~LastRet.raised
        /\ Len(ret') = Len(ret) + 1 /\ ~ret'[Len(ret')].raised)
       => view' = view]_vars

\* The blob an entry leads to
Blob(e) == IF e.kind = "symlink" THEN SubSeq(e.target, 3, Len(e.target)) ELSE e.target

\* The directory of a document's category
CategoryDir(doc, default_category) ==
    IF doc.category = None \/ strip(doc.category[1]) = ""
    THEN safe_filename(default_category)
    ELSE safe_filename(doc.category[1])

RECURSIVE SumCounts(_, _)
SumCounts(counts, keys) ==
    IF keys = {} THEN 0
    ELSE LET k == CHOOSE x \in keys : TRUE
         IN counts[k] + SumCounts(counts, keys \ {k})

OneEntryPerDocument(entries, documents, default_category) ==
    /\ \A i \in DOMAIN documents :
          \E e \in entries :
             /\ Blob(e) = documents[i].vault_relpath
             /\ e.dir = CategoryDir(documents[i], default_category)
             /\ \A e2 \in entries : Blob(e2) = Blob(e) => e2 = e
    /\ \A e \in entries : \E i \in DOMAIN documents : Blob(e) = documents[i].vault_relpath
    /\ \A e1, e2 \in entries : EntryPath(e1) = EntryPath(e2) => e1 = e2

CountsAddUp(by_category, documents) ==
    /\ "_total_links" \in DOMAIN by_category
    /\ by_category["_total_links"] = Len(documents)
    /\ SumCounts(by_category, DOMAIN by_category \ {"_total_links"})
          = by_category["_total_links"]

\* C17: after a view rebuild with refresh over a document list D, the view holds
\* exactly one entry per document of D and nothing else, each in the directory
\* of its document's category (the default category when it is null or blank),
\* no two documents share an entry path, the total-links count is |D| and the
\* per-category counts sum to it.
C17_RefreshedViewOneEntryPerDocument ==
    (/\ call.fn = "rebuild" /\ call.refresh
     /\ ret # <<>> /\ ~LastRet.raised)
    => /\ OneEntryPerDocument(view, call.documents, call.default_category)
       /\ CountsAddUp(LastRet.by_category, call.documents)

\* The part of C17 about the entries alone
RefreshedViewEntries ==
    (/\ call.fn = "rebuild" /\ call.refresh
     /\ ret # <<>> /\ ~LastRet.raised)
    => OneEntryPerDocument(view, call.documents, call.default_category)

-----------------------------------------------------------------------------
(* Options and the LLM policy of a pass *)

\* A call stops on an option outside its enumeration
RejectsOption ==
    RejectedCalls \/ \E refresh_view \in BOOLEAN : CatViewRaises("move", refresh_view, {})

\* C18: an invalid enumerated option (link mode, LLM provider, LLM mode,
\* path-disclosure mode, scan method) is rejected before the run mutates any
\* state: the step that raises the error leaves the committed Manifest, the
\* store, the scratch area of the library, the library directory (made or not
\* yet made) and the categorized view as they were.
C18_InvalidOptionMutatesNothing ==
    [][RejectsOption => /\ disk' = disk
                        /\ vault' = vault
                        /\ tmp' = tmp
                        /\ initialized' = initialized
                        /\ view' = view]_vars

\* What a text can have been written as
Written(text) == {d \in Descriptions : Rendered[d] = text}

\* The response names an allowed category with a confidence at or above the
\* minimum, in a JSON object or a Python dict that stands alone or in a fence
GoodWriting(d) ==
    /\ d.form \in {"json", "fenced_json", "pydict"}
    /\ d.category # None /\ d.category[1] = "str"
    /\ \E c \in Allowed : normalized[c] = normalize_category_name(d.category[2])
    /\ d.confidence # None /\ d.confidence[1] = "num"
    /\ d.confidence[2] >= MinConfidence

\* The texts of the batch replies that are such a response, found once
GoodTexts ==
    {text \in {reply.text : reply \in {r \in LLMReplies : r.transport = "ok"}} :
        \E d \in Written(text) : GoodWriting(d)}

\* The allowed category each of them names
NamedIn ==
    [text \in GoodTexts |->
        LET d == CHOOSE d \in Written(text) : GoodWriting(d)
        IN CHOOSE c \in Allowed : normalized[c] = normalize_category_name(d.category[2])]

\* A reply of the batch that carries such a response
GoodAnswer(reply) ==
    /\ reply # None
    /\ reply.transport = "ok"
    /\ reply.shape \in {"message", "text", "output_text"}
    /\ reply.text \in GoodTexts

\* The allowed category a good response names
NamedCategory(reply) == NamedIn[reply.text]

AlwaysPass == pc = "cat" /\ opts.llm_provider = "uzu" /\ opts.llm_mode = "always"

\* C19: under the "always" policy the provider is called exactly once for every
\* document of the batch, whatever the rule result: when the pass returns,
\* llm_calls equals the number of documents categorized; and when every
\* response named an allowed category with confidence at or above the minimum,
\* llm_used equals llm_calls, llm_failed is 0, and each document's one entry in
\* the rebuilt view lies under the category the provider named for it.
C19_AlwaysCallsEveryDocument ==
    [][(AlwaysPass /\ Commits)
       => /\ cstats.docs_categorized = Len(candidates)
          /\ cstats.llm_calls = cstats.docs_categorized
          /\ Len(answers) = Len(candidates)
          /\ \A i \in DOMAIN answers :
                answers[i].called /\ answers[i].hash = candidates[i]
          /\ (\A i \in DOMAIN answers : GoodAnswer(answers[i].reply))
             => /\ cstats.llm_used = cstats.llm_calls
                /\ cstats.llm_failed = 0
                /\ \A i \in DOMAIN answers :
                      \E e \in view' :
                         /\ Blob(e) = vault_path_for_hash(answers[i].hash)
                         /\ e.dir = safe_filename(NamedCategory(answers[i].reply))
                         /\ \A e2 \in view' : Blob(e2) = Blob(e) => e2 = e]_vars

\* An "always" pass over two documents has called the provider for both, the
\* rules placed the last one with confidence, and the provider named a
\* different allowed category for each
C19_Witness ==
    /\ AlwaysPass
    /\ idx > Len(candidates)
    /\ Len(candidates) = 2
    /\ Len(answers) = 2
    /\ GoodAnswer(answers[1].reply) /\ GoodAnswer(answers[2].reply)
    /\ NamedCategory(answers[1].reply) # NamedCategory(answers[2].reply)
    /\ loc.cat_rules.score >= min_score
    /\ loc.cat_rules.category # NamedCategory(answers[2].reply)

-----------------------------------------------------------------------------
(* Path disclosure *)

\* The text holds the home directory as a path prefix
HoldsHome(text) ==
    LET home == path_str_of(HomeParts)
    IN \E i \in 1..Len(text) :
          /\ i + Len(home) - 1 <= Len(text)
          /\ SubSeq(text, i, i + Len(home) - 1) = home
          /\ i + Len(home) <= Len(text) => text[i + Len(home)] = "/"

UnderHome(path_str) ==
    /\ path_str # None /\ path_str # Some("")
    /\ startswith(PathParts(path_str[1]), HomeParts)
    /\ Len(PathParts(path_str[1])) > Len(HomeParts)

\* C20: in every path-disclosure mode (basename, tail with any N, full) the path
\* text placed in the prompt for a file under the operator's home directory
\* never contains the home-directory prefix.
C20_PromptPathHidesHome ==
    (/\ call # None /\ call.fn = "format_source_path"
     /\ ret # None
     /\ UnderHome(call.path_str))
    => /\ ret.value # None
       /\ ~HoldsHome(ret.value[1])

-----------------------------------------------------------------------------
(* The document query *)

\* The step opens a categorization pass
CatStarts == pc # "cat" /\ pc' = "cat"

\* C21: the document query returns documents most-recently-seen first and its
\* order is fully determined by the Manifest contents: the order a pass
\* processes the documents in is the only order the rows of the committed
\* Manifest admit, also when several rows share one last_seen_at.
C21_QueryOrderDetermined ==
    [][CatStarts =>
          /\ \A i, j \in DOMAIN candidates' :
                i < j => DocRow(disk, candidates'[i]).last_seen_at
                            >= DocRow(disk, candidates'[j]).last_seen_at
          /\ \A order \in iter_documents(disk, ~opts'.recategorize_all) :
                order = candidates']_vars

-----------------------------------------------------------------------------
(* What a categorization pass touches *)

Categorized(d) == d.category # None /\ d.category # Some("")

\* C22: without the recategorize-all option, a categorization pass changes the
\* metadata, category, score, reason and categorized_at only of documents whose
\* category was null or empty at the start of the pass: every step of the pass,
\* its commit included, leaves the row of each document that had a category
\* when the pass started as it was.
C22_CategorizedRowsKept ==
    [][(pc = "cat" /\ ~opts.recategorize_all)
       => \A d \in disk.documents :
             Categorized(d) => d \in conn'.documents /\ d \in disk'.documents]_vars

\* A pass without the option has stored a category for the one document that
\* had none, next to a document categorized by an earlier pass
C22_Witness ==
    /\ pc = "cat" /\ ~opts.recategorize_all
    /\ idx > Len(candidates)
    /\ cstats.docs_categorized = 1
    /\ \E d \in disk.documents : Categorized(d) /\ d \in conn.documents
    /\ \E d \in disk.documents :
          /\ ~Categorized(d)
          /\ Categorized(DocRow(conn, d.hash))
          /\ DocRow(conn, d.hash).categorized_at = Some(clock)

\* C23: no scan pass, categorization pass or view rebuild ever removes a
\* Document: over every step the digests of the committed Manifest only grow,
\* and an existing Document keeps its digest, its store path, its size and its
\* first_seen_at (only metadata, category and last_seen_at are updated).
C23_DocumentsNeverRemoved ==
    [][\A d \in disk.documents :
          \E d2 \in disk'.documents :
             /\ d2.hash = d.hash
             /\ d2.vault_relpath = d.vault_relpath
             /\ d2.file_size = d.file_size
             /\ d2.first_seen_at = d.first_seen_at
             /\ d2.last_seen_at >= d.last_seen_at]_vars

\* A committed Document was seen again by a later scan and then categorized
C23_Witness ==
    /\ pc = "idle"
    /\ view # {}
    /\ \E d \in disk.documents :
          /\ d.last_seen_at > d.first_seen_at
          /\ Categorized(d)
          /\ d.categorized_at = Some(clock)

\* The text was written as prose, a fence and one object with single-quoted
\* keys and values
QuotedInFence(d) == d.form \in QuotedInFenceForms

\* The braces of a text
Braces(text) == {i \in DOMAIN text : text[i] \in {Sym("{"), Sym("}")}}

\* The text holds no brace but those of one object, no quote outside a string
\* (an apostrophe inside a single-quoted value leaves one) and none of the
\* JSON words true, false, null: its object is a Python literal
PythonLiteralAlone(text) ==
    /\ Cardinality(Braces(text)) = 2
    /\ \A i \in DOMAIN text :
          text[i] \notin {Sym("'"), Word("true"), Word("false"), Word("null")}

SpecExample ==
    <<Word("Sure!"), Sp, Fence, Word("json"), Nl,
      Sym("{"), <<"sq", "category">>, Sym(":"), Sp, <<"sq", "Manuals & Guides">>, Sym(","), Sp,
      <<"sq", "confidence">>, Sym(":"), Sp, <<"num", 80>>, Sym("}"), Nl, Fence>>

ChannelScore(cat, doc) ==
    Channel(any_kw(lower(doc.source_path), cat.path_keywords_any), PathBase)
    + Channel(any_kw(lower(doc.source_basename), cat.filename_keywords_any), FileBase)
    + Channel(any_kw(lower(doc.title), cat.metadata_keywords_any), MetaBase)
    + Channel(any_kw(lower(doc.text_sample), cat.text_keywords_any), TextBase)

\* Which of two rules the claim says is selected
Preferred(a, b, doc) ==
    IF ChannelScore(a, doc) > ChannelScore(b, doc) THEN a.name
    ELSE IF ChannelScore(b, doc) > ChannelScore(a, doc) THEN b.name
    ELSE IF b.priority > a.priority THEN b.name
    ELSE a.name

\* C25: between two rules with equal four-channel scores the scorer selects
\* the one with the higher priority, and the first in list order when the
\* priorities are equal too; between two rules whose channel scores differ it
\* selects the one with the higher channel score whatever their priorities.
\* Stated for rule sets of two rules that both have a hit and are both within
\* their page bounds, with no threshold.
C25_ChannelScoreBeforePriority ==
    (call # None /\ call.fn = "categorize" /\ ret # None
       /\ Len(call.cfg.categories) = 2 /\ call.cfg.min_score = 0)
    => LET a == call.cfg.categories[1]
           b == call.cfg.categories[2]
       IN (/\ ChannelScore(a, call.doc) > 0
           /\ ChannelScore(b, call.doc) > 0
           /\ ~PageSkipped(a, call.doc.page_count)
           /\ ~PageSkipped(b, call.doc.page_count))
          => ret.category = Preferred(a, b, call.doc)

\* The step is one call of the view builder with a known link mode
Rebuilds == call.fn = "rebuild" /\ Len(ret') = Len(ret) + 1 /\ call.link_mode \in Linkers

\* The entries the call made
MadeEntries == view' \ (IF call.refresh THEN {} ELSE view)

\* What the file system refuses for document i of the call
WhatFails(i) == failure_of(call.fault, call.documents[i].hash)

\* The documents of the call whose link (hard link, symbolic link or copy, by
\* the mode) cannot be made
FailingDocs == {i \in DOMAIN call.documents : linker_raises(call.link_mode, WhatFails(i))}

\* The documents of the call whose category directory cannot be made
NoDirDocs == {i \in DOMAIN call.documents : mkdir_raises(WhatFails(i))}

\* The documents of the call at which the rebuild cannot go on: the category
\* directory cannot be made, the link cannot be made in symlink or copy mode,
\* or neither the hard link nor the symbolic link can be made in hardlink mode
StoppingDocs ==
    NoDirDocs
    \cup {i \in FailingDocs : call.link_mode = "hardlink" => fallback_raises(WhatFails(i))}

\* The entries the call made for document i
EntriesOf(i) == {e \in MadeEntries : Blob(e) = call.documents[i].vault_relpath}

\* C26 as stated: in hard-link mode (the category directories can be made),
\* whenever the hard link of a document fails a symbolic link is created for
\* it, the entry is counted and the rebuild goes on: the call does not raise,
\* every document has one entry, a symbolic link where the hard link failed
\* and a hard link elsewhere; in symlink or copy mode a failing link raises.
C26_HardlinkAlwaysFallsBack ==
    [][(Rebuilds /\ NoDirDocs = {}) =>
         IF call.link_mode = "hardlink"
         THEN /\ ~ret'[Len(ret')].raised
              /\ \A i \in DOMAIN call.documents :
                    \E e \in MadeEntries :
                       /\ EntriesOf(i) = {e}
                       /\ e.kind = IF i \in FailingDocs THEN "symlink" ELSE "hardlink"
              /\ ret'[Len(ret')].by_category["_total_links"] = Len(call.documents)
         ELSE FailingDocs # {}
              => /\ ret'[Len(ret')].raised
                 /\ ret'[Len(ret')].exc = "OSError"]_vars

\* C26: in hard-link mode, when creating the hard link for one document fails
\* and a symbolic link can be made in its place, a symbolic link is created
\* for that document only, the entry is counted and the rebuild continues
\* with hard links for the remaining documents; when the symbolic link cannot
\* be made either, its error propagates and aborts the rebuild.  In symlink or
\* copy mode a link-creation failure propagates and aborts the rebuild.  In
\* every mode a category directory that cannot be made aborts the rebuild.
\* An aborted rebuild raised OSError, made one entry for each document before
\* the one it stopped at (a symbolic link where a hard link failed, the
\* mode's kind elsewhere), none for a later document, and for the document it
\* stopped at nothing but what a failed copy left of its file.
C26_HardlinkFallsBackPerDocument ==
    [][Rebuilds =>
         LET last == ret'[Len(ret')]
         IN /\ last.raised <=> StoppingDocs # {}
            /\ last.raised => last.exc = "OSError"
            /\ ~last.raised => last.by_category["_total_links"] = Len(call.documents)
            /\ \A i \in DOMAIN call.documents :
                  IF \A j \in StoppingDocs : i < j
                  THEN \E e \in MadeEntries :
                          /\ EntriesOf(i) = {e}
                          /\ e.kind = IF call.link_mode = "hardlink" /\ i \in FailingDocs
                                      THEN "symlink" ELSE call.link_mode
                  ELSE IF \A j \in StoppingDocs : i <= j
                  THEN \A e \in EntriesOf(i) :
                          /\ call.link_mode = "copy"
                          /\ WhatFails(i) \in {"partial", "attrs"}
                          /\ e.kind = IF WhatFails(i) = "partial" THEN "partial" ELSE "copy"
                  ELSE EntriesOf(i) = {}]_vars

\* A hard-link rebuild of three documents in which the link of the second one
\* failed: the view holds one symbolic link between two hard links
C26_Witness ==
    /\ call.fn = "rebuild" /\ call.link_mode = "hardlink" /\ call.refresh
    /\ Len(call.documents) = 3
    /\ call.fault = {<<call.documents[2].hash, "link">>}
    /\ Len(ret) = 1 /\ ~LastRet.raised
    /\ LastRet.by_category["_total_links"] = 3
    /\ \E e \in view : e.kind = "symlink" /\ Blob(e) = call.documents[2].vault_relpath
    /\ \E e \in view : e.kind = "hardlink" /\ Blob(e) = call.documents[1].vault_relpath
    /\ \E e \in view : e.kind = "hardlink" /\ Blob(e) = call.documents[3].vault_relpath

\* source_files.hash REFERENCES documents(hash)
References(db) ==
    \A r \in db.source_files :
       r.hash # None => \E d \in db.documents : d.hash = r.hash[1]

\* C27: after any sequence of scan passes, and at every point of one, every
\* source row with a non-null digest references a row of the documents table,
\* in the connection's view and in the committed Manifest; and a source row
\* written after a failure has a null digest.
C27_SourceRowsReferenceDocuments ==
    /\ References(conn)
    /\ References(disk)
    /\ \A r \in conn.source_files \cup disk.source_files : r.status \in Failed => r.hash = None

\* A committed row that had a digest was rewritten after a failure, so that its
\* Document is referenced by no row, next to a row that references one
C27_Witness ==
    /\ pc = "idle"
    /\ \E r \in disk.source_files :
          r.status \in Failed /\ r.hash = None /\ r.first_seen_at < r.last_seen_at
    /\ \E d \in disk.documents : \A r \in disk.source_files : r.hash # Some(d.hash)
    /\ \E r \in disk.source_files : r.hash # None

\* The documents row names the canonical location of its digest, and the blob
\* there has that digest
Stocked(d) ==
    /\ d.vault_relpath = vault_path_for_hash(d.hash)
    /\ exists(vault, d.vault_relpath)
    /\ DigestOf(vault[d.vault_relpath]) = d.hash

\* C28: after any sequence of scan passes, each committed or stopped before
\* its commit, every Document of the committed Manifest (and of the
\* connection's view) has a blob in the store at its vault_relpath, which is
\* the canonical fan-out location of its digest.  The store may hold blobs
\* with no Document.
C28_EveryDocumentHasItsBlob ==
    \A d \in disk.documents \cup conn.documents : Stocked(d)

\* A pass was stopped before its commit after it stored a blob: the store
\* holds a blob with no Document next to one with a Document
C28_Witness ==
    /\ pc = "idle"
    /\ \E d \in disk.documents : Stocked(d)
    /\ \E path \in DOMAIN vault : \A d \in disk.documents : d.vault_relpath # path

\* The step makes a provider call for the document at hand
ProviderCalled == pc = "cat" /\ idx <= Len(candidates) /\ loc' # NoLoc /\ loc'.called

\* The three ways a provider call is accounted for
CallAccepted ==
    CatStep /\ cstats'.llm_used = cstats.llm_used + 1
            /\ cstats'.llm_failed = cstats.llm_failed
CallFailed ==
    CatStep /\ cstats'.llm_failed = cstats.llm_failed + 1
            /\ cstats'.llm_used = cstats.llm_used
CallLowConfidence ==
    /\ CatStep
    /\ cstats'.llm_used = cstats.llm_used
    /\ cstats'.llm_failed = cstats.llm_failed
    /\ DocRow(conn', loc'.hash).category_reason
          = Some(loc'.cat_rules.reason
                    \o <<<<"| llm:uzu low_conf", loc'.llm_result.confidence>>>>)

CountersOrdered(cs) ==
    /\ cs.llm_used + cs.llm_failed <= cs.llm_calls
    /\ cs.llm_calls <= cs.docs_categorized

\* With the provider off no call is counted and the rule result is stored
ProviderOffKeepsRules ==
    (CatStep /\ opts.llm_provider = "off")
    => /\ cstats'.llm_calls = 0 /\ cstats'.llm_used = 0 /\ cstats'.llm_failed = 0
       /\ Stored(DocRow(conn', loc'.hash), loc'.cat_rules.category,
                 loc'.cat_rules.score, loc'.cat_rules.reason)

\* C29: at every point of a categorization batch llm_used + llm_failed <=
\* llm_calls <= docs_categorized; each provider call ends in exactly one of
\* accepted, failed or low-confidence; and with the provider off llm_calls,
\* llm_used and llm_failed stay 0 and every final result is the rule result.
C29_EveryCallAccountedFor ==
    [][/\ CountersOrdered(cstats')
       /\ ProviderCalled
          => \/ CallAccepted /\ ~CallFailed /\ ~CallLowConfidence
             \/ ~CallAccepted /\ CallFailed /\ ~CallLowConfidence
             \/ ~CallAccepted /\ ~CallFailed /\ CallLowConfidence
       /\ ProviderOffKeepsRules]_vars

\* The parts of C29 about the counters between documents and about a pass
\* with the provider off
CountersAndProviderOff ==
    [][CountersOrdered(cstats') /\ ProviderOffKeepsRules]_vars

\* The part of C29 about the calls that return or raise LLMError
ReturnedCallsAccountedFor ==
    [][(ProviderCalled /\ loc'.llm_result.exc \in {"none", "LLMError"})
       => \/ CallAccepted /\ ~CallFailed /\ ~CallLowConfidence
          \/ ~CallAccepted /\ CallFailed /\ ~CallLowConfidence
          \/ ~CallAccepted /\ ~CallFailed /\ CallLowConfidence]_vars

\* The step is the commit that completes a categorization pass
CatCommits == pc = "cat" /\ Commits

AllCategorized(db) == \A d \in db.documents : Categorized(d)

\* C30: a categorization pass that completes leaves no document with a null
\* or empty category, whatever the provider returned or however it failed; so
\* a pass that starts on the Manifest it left, without recategorize_all,
\* selects no document, and completes with docs_categorized = 0 and
\* llm_calls = 0.
C30_CompletedPassLeavesNoneUncategorized ==
    [][/\ CatCommits => AllCategorized(disk')
       /\ (CatStarts /\ ~opts'.recategorize_all /\ AllCategorized(disk))
          => candidates' = <<>>
       /\ (CatCommits /\ candidates = <<>>)
          => cstats.docs_categorized = 0 /\ cstats.llm_calls = 0]_vars

\* A second pass has started, with the provider on, on the Manifest in which
\* the pass before it stored a document under the default category: it
\* selected nothing
C30_Witness ==
    /\ pc = "cat"
    /\ opts.llm_provider = "uzu"
    /\ ~opts.recategorize_all
    /\ candidates = <<>>
    /\ idx = 1
    /\ cstats = ZeroCat
    /\ disk.documents # {}
    /\ AllCategorized(disk)
    /\ \E d \in disk.documents :
          /\ d.categorized_at = Some(clock - 1)
          /\ d.category = Some(DefaultCategory)

====
